---------------------------- MODULE Spec2Model ----------------------------
(***************************************************************************)
(* A model of the diff-indexing, path-matching, anchor-resolution,         *)
(* validation, fingerprinting and proximity-suppression core of            *)
(* accessibility-fixer.                                                    *)
(*                                                                         *)
(* Text is modelled at character level: a string is a sequence of          *)
(* one-character strings, a diff is a sequence of such lines (the result   *)
(* of diff_text.split("\n")).  Python's None is the value None below.      *)
(***************************************************************************)
EXTENDS Integers, Sequences, FiniteSets, TLC

VARIABLES
    \* DiffParser.extract_commentable_lines: the number of lines read, the
    \* line read last, and the loop's locals
    nlines, line_read, commentable, current_file, current_line, in_hunk, raised,
    \* what the producer of the diff knows about the text it has written:
    \* the file and hunk it is in, the lines the hunk header still announces,
    \* and the '+'/' ' body lines written so far
    gFile, gStart, gOld, gNew, gK, gBody,
    \* DiffParser.filter_diff_for_files: its arguments (the requested paths
    \* are those looped over so far), its locals, the path matched for each
    \* requested path, and where it is
    full_diff, file_paths, parsed, filtered_sections, matched_paths, filter_pc,
    \* the section written for each file of full_diff
    gSections,
    \* validate_issues_in_batch: its arguments (the issues are those looped
    \* over so far, as they were passed), its locals line_texts and validated,
    \* the reason codes it has printed for the issues it dropped, for each
    \* issue its place in validated (0 when dropped), and where it is
    batch_files, diff_text, commentable_lines, line_texts, issues, validated,
    dropped, validated_at, validate_pc,
    \* whether DEBUG_WEB_REVIEW is set, the list drop_reasons, and the issue
    \* objects of the list passed as they are now (the kept ones are those in
    \* validated)
    debug_web_review, drop_reasons, issues_now,
    \* post_batch_comments: the set posted_locations, the issues it has kept,
    \* the calls of is_near_existing_comment made so far (the issue, the set
    \* at the time of the call, and what was returned), and where it is
    posted_locations, new_issues, near_calls, suppress_pc,
    \* _dedupe_issues: the issues looped over so far, the value of its local
    \* fingerprint in each pass, and its locals seen_fingerprints and out
    dedupe_issues, fingerprints, seen_fingerprints, out,
    \* find_nearest_commentable_line: the calls made so far, each with its
    \* arguments and what it returned
    nearest_calls,
    \* a diff text as it arrives, and what _normalize_diff, parse_diff,
    \* extract_commentable_lines and extract_commentable_line_texts return
    \* for it (None until called; the last three in a tuple that is empty
    \* until called)
    parse_text, parse_normal, parse_sections, parse_lines, parse_texts,
    \* handle_pull_request: existing_locations as fetched and as it is now,
    \* its copy posted_locations that posting adds to, and the calls of
    \* filter_locations_for_files made for the phases so far
    fetched_locations, existing_locations, run_posted_locations, phase_calls,
    \* the last call of parse_diff, extract_commentable_lines or
    \* extract_changed_line_ranges on a text without a file header, with what
    \* it returned (a tuple that is empty until the first call)
    headerless_call,
    \* handle_pull_request at its end: all_issues and the commit status it
    \* posts for them (a tuple that is empty until the run ends)
    final_status,
    \* the last call of resolve_anchor_line made directly, as the tests make
    \* it, with its arguments and what it returned (empty until the call)
    resolve_call,
    \* one batch of PRReviewer.review_pr_diff: the diff and the batch, the
    \* batch diff and the commentable lines taken from it, the issue of the
    \* reply and what validation made of it (empty until the batch is done)
    batch_review,
    \* review_pr_diff with a callback on_batch_complete: the batches looped
    \* over, its local all_issues, the lists handed to the callback so far,
    \* and whether the loop is left
    batch_idx, all_issues, handed, run_pc

idxVars == <<nlines, line_read, commentable, current_file, current_line, in_hunk, raised,
             gFile, gStart, gOld, gNew, gK, gBody>>

fltVars == <<full_diff, file_paths, parsed, filtered_sections, matched_paths,
             filter_pc, gSections>>

valVars == <<batch_files, diff_text, commentable_lines, line_texts, issues,
             validated, dropped, validated_at, validate_pc,
             debug_web_review, drop_reasons, issues_now>>

supVars == <<posted_locations, new_issues, near_calls, suppress_pc>>

dedVars == <<dedupe_issues, fingerprints, seen_fingerprints, out>>

nearVars == <<nearest_calls>>

prsVars == <<parse_text, parse_normal, parse_sections, parse_lines, parse_texts>>

phVars == <<fetched_locations, existing_locations, run_posted_locations, phase_calls>>

coreVars == <<idxVars, fltVars, valVars, supVars>>

hdrVars == <<headerless_call>>

stVars == <<final_status>>

resVars == <<resolve_call>>

batVars == <<batch_review>>

runVars == <<batch_idx, all_issues, handed, run_pc>>

extVars == <<hdrVars, stVars, resVars, batVars, runVars>>

auxVars == <<dedVars, nearVars, prsVars, phVars, extVars>>

vars == <<coreVars, auxVars>>

-----------------------------------------------------------------------------
(* Strings *)

None == <<"None">>

\* Python truthiness of an Optional[str]
Truthy(s) == s # None /\ s # <<>>

Min(a, b) == IF a <= b THEN a ELSE b
Max(a, b) == IF a >= b THEN a ELSE b
Abs(a) == IF a < 0 THEN -a ELSE a

\* s[i:] and s[:n] with 0-based Python indices
DropFirst(s, n) == SubSeq(s, n + 1, Len(s))
TakeFirst(s, n) == SubSeq(s, 1, Min(n, Len(s)))

\* s[m..n] (1-based, inclusive), cut to the string as a Python slice is
Slice(s, m, n) == SubSeq(s, Max(m, 1), Min(n, Len(s)))

StartsWith(s, p) == Len(p) <= Len(s) /\ SubSeq(s, 1, Len(p)) = p
EndsWith(s, p) == Len(p) <= Len(s) /\ SubSeq(s, Len(s) - Len(p) + 1, Len(s)) = p
\* p in s
Contains(s, p) == \E i \in 0..(Len(s) - Len(p)) : SubSeq(s, i + 1, i + Len(p)) = p

Digits == <<"0", "1", "2", "3", "4", "5", "6", "7", "8", "9">>
IsDigit(c) == \E d \in 1..10 : Digits[d] = c
DigitVal(c) == (CHOOSE d \in 1..10 : Digits[d] = c) - 1
\* str.split() and str.strip() whitespace
IsSpace(c) == c \in {" ", "\t", "\r", "\n"}

\* int(s) for a string of digits
RECURSIVE ParseInt(_)
ParseInt(s) ==
    IF s = <<>> THEN 0
    ELSE 10 * ParseInt(SubSeq(s, 1, Len(s) - 1)) + DigitVal(s[Len(s)])

\* str(n) for n >= 0
RECURSIVE IntToStr(_)
IntToStr(n) ==
    IF n < 10 THEN <<Digits[n + 1]>>
    ELSE IntToStr(n \div 10) \o <<Digits[(n % 10) + 1]>>

\* the first index >= i of s that holds no digit (Len(s) + 1 when none)
RECURSIVE DigitsEnd(_, _)
DigitsEnd(s, i) ==
    IF i <= Len(s) /\ IsDigit(s[i]) THEN DigitsEnd(s, i + 1) ELSE i

\* the first index >= i of s that holds no whitespace / that holds whitespace
RECURSIVE SkipSpace(_, _)
SkipSpace(s, i) ==
    IF i <= Len(s) /\ IsSpace(s[i]) THEN SkipSpace(s, i + 1) ELSE i
RECURSIVE SkipNonSpace(_, _)
SkipNonSpace(s, i) ==
    IF i <= Len(s) /\ ~IsSpace(s[i]) THEN SkipNonSpace(s, i + 1) ELSE i

\* s.strip()
RECURSIVE RStrip(_)
RStrip(s) ==
    IF s # <<>> /\ IsSpace(s[Len(s)]) THEN RStrip(SubSeq(s, 1, Len(s) - 1)) ELSE s
Strip(s) == RStrip(DropFirst(s, SkipSpace(s, 1) - 1))

\* os.path.basename(p): what follows the last '/'
RECURSIVE Basename(_)
Basename(p) ==
    IF \E i \in 1..Len(p) : p[i] = "/"
    THEN Basename(DropFirst(p, CHOOSE i \in 1..Len(p) : p[i] = "/"))
    ELSE p

\* s.split()[0]; None stands for the IndexError of an all-whitespace s
FirstToken(s) ==
    LET b == SkipSpace(s, 1)
    IN  IF b > Len(s) THEN None ELSE SubSeq(s, b, SkipNonSpace(s, b) - 1)

-----------------------------------------------------------------------------
(* DiffParser.extract_commentable_lines *)

\* re.match(r"^@@ -\d+(?:,\d+)? \+(\d+)(?:,(\d+))? @@", line): whether it
\* matches, int(group 1), and int(group 2) or -1 when the count is left out.
\* The operators below read the line from left to right.
NoHunk == [matched |-> FALSE, start |-> 0, count |-> -1]

\* the index after an optional `,\d+` at index i
CountEnd(line, i) ==
    IF i <= Len(line) /\ line[i] = "," /\ DigitsEnd(line, i + 1) > i + 1
    THEN DigitsEnd(line, i + 1) ELSE i

\* ` @@` at d1, after the new start line[c1..c2-1] and its optional count
HunkTail(line, c1, c2, d1) ==
    IF Slice(line, d1, d1 + 2) # <<" ", "@", "@">> THEN NoHunk
    ELSE [matched |-> TRUE,
          start |-> ParseInt(SubSeq(line, c1, c2 - 1)),
          count |-> IF d1 > c2 THEN ParseInt(SubSeq(line, c2 + 1, d1 - 1)) ELSE -1]

\* `(\d+)` from c1 to c2 - 1
HunkNew(line, c1, c2) ==
    IF c2 = c1 THEN NoHunk ELSE HunkTail(line, c1, c2, CountEnd(line, c2))

\* ` \+` at b1, after the old start and its optional count
HunkOld(line, b1) ==
    IF Slice(line, b1, b1 + 1) # <<" ", "+">> THEN NoHunk
    ELSE HunkNew(line, b1 + 2, DigitsEnd(line, b1 + 2))

HunkMatch(line) ==
    IF ~StartsWith(line, <<"@", "@", " ", "-">>) THEN NoHunk
    ELSE IF DigitsEnd(line, 5) = 5 THEN NoHunk
    ELSE HunkOld(line, CountEnd(line, DigitsEnd(line, 5)))

FileHeaderPrefix == <<"+", "+", "+", " ", "b", "/">>

\* commentable[key] = value
SetKey(map, key, value) ==
    [k \in (DOMAIN map) \cup {key} |-> IF k = key THEN value ELSE map[k]]

\* One pass of the loop `for line in diff_text.split("\n")` of
\* extract_commentable_lines over `line`: the locals after it.
extract_commentable_lines_line(st, line) ==
    IF StartsWith(line, FileHeaderPrefix) THEN
        LET path_part == DropFirst(line, 6)
            file == IF path_part # <<>> THEN FirstToken(path_part) ELSE <<>>
        IN  IF file = None
            THEN [st EXCEPT !.raised = TRUE]
            ELSE [st EXCEPT !.current_file = file,
                            !.commentable = SetKey(st.commentable, file, <<>>),
                            !.in_hunk = FALSE]
    ELSE IF HunkMatch(line).matched /\ Truthy(st.current_file) THEN
        [st EXCEPT !.current_line = HunkMatch(line).start, !.in_hunk = TRUE]
    ELSE IF st.in_hunk /\ Truthy(st.current_file) THEN
        IF StartsWith(line, <<"+">>) /\ ~StartsWith(line, <<"+", "+", "+">>) THEN
            [st EXCEPT !.commentable[st.current_file] = Append(@, st.current_line),
                       !.current_line = @ + 1]
        ELSE IF StartsWith(line, <<" ">>) THEN
            [st EXCEPT !.commentable[st.current_file] = Append(@, st.current_line),
                       !.current_line = @ + 1]
        ELSE IF StartsWith(line, <<"-">>) THEN st
        ELSE IF line # <<>> /\ ~StartsWith(line, <<"\\">>)
             THEN [st EXCEPT !.in_hunk = FALSE]
             ELSE st
    ELSE st

\* the locals of extract_commentable_lines before the first line
ExtractInit ==
    [commentable |-> <<>>, current_file |-> None, current_line |-> 0,
     in_hunk |-> FALSE, raised |-> FALSE]

\* extract_commentable_lines(diff_text) for a text already split in lines
RECURSIVE ExtractFold(_, _)
ExtractFold(st, ls) ==
    IF ls = <<>> \/ st.raised THEN st
    ELSE ExtractFold(extract_commentable_lines_line(st, Head(ls)), Tail(ls))
extract_commentable_lines(ls) == ExtractFold(ExtractInit, ls).commentable

-----------------------------------------------------------------------------
(* DiffParser._normalize_diff, parse_diff, filter_diff_for_files *)

\* _normalize_diff on a text split at "\n": "\r\n" becomes "\n" and every
\* other "\r" is deleted, so each line loses its "\r" characters
RECURSIVE RemoveCRIn(_, _, _)
RemoveCRIn(s, lo, hi) ==
    IF lo > hi THEN <<>>
    ELSE IF lo = hi THEN (IF s[lo] = "\r" THEN <<>> ELSE <<s[lo]>>)
    ELSE RemoveCRIn(s, lo, (lo + hi) \div 2) \o RemoveCRIn(s, ((lo + hi) \div 2) + 1, hi)
RemoveCR(s) == RemoveCRIn(s, 1, Len(s))
_normalize_diff(ls) == [i \in 1..Len(ls) |-> RemoveCR(ls[i])]

DiffGitPrefix == <<"d", "i", "f", "f", " ", "-", "-", "g", "i", "t", " ">>

\* re.search(r"\sb/(\S+)", line): group 1, or None
DestinationPath(line) ==
    LET hits == {i \in 1..Len(line) :
                    /\ IsSpace(line[i])
                    /\ Slice(line, i + 1, i + 2) = <<"b", "/">>
                    /\ i + 3 <= Len(line)
                    /\ ~IsSpace(line[i + 3])}
        i == CHOOSE h \in hits : \A o \in hits : h <= o
    IN  IF hits = {} THEN None ELSE SubSeq(line, i + 3, SkipNonSpace(line, i + 3) - 1)

\* `while current_diff_lines and current_diff_lines[-1].strip() == "": pop()`
RECURSIVE TrimTrailingEmpty(_)
TrimTrailingEmpty(ls) ==
    IF ls # <<>> /\ Strip(ls[Len(ls)]) = <<>>
    THEN TrimTrailingEmpty(SubSeq(ls, 1, Len(ls) - 1))
    ELSE ls

\* one pass of parse_diff's loop
parse_diff_line(st, line) ==
    IF StartsWith(line, DiffGitPrefix) THEN
        LET saved == IF Truthy(st.current_file) /\ st.current_diff_lines # <<>>
                     THEN SetKey(st.file_diffs, st.current_file,
                                 TrimTrailingEmpty(st.current_diff_lines))
                     ELSE st.file_diffs
            path == DestinationPath(line)
        IN  IF path # None
            THEN [file_diffs |-> saved, current_file |-> path,
                  current_diff_lines |-> <<line>>]
            ELSE [file_diffs |-> saved, current_file |-> None,
                  current_diff_lines |-> <<>>]
    ELSE IF st.current_file # None THEN
        [st EXCEPT !.current_diff_lines = Append(@, line)]
    ELSE st

RECURSIVE ParseFold(_, _)
ParseFold(st, ls) ==
    IF ls = <<>> THEN st ELSE ParseFold(parse_diff_line(st, Head(ls)), Tail(ls))

\* parse_diff(diff_text): the sections (lists of lines) by file path
parse_diff(ls) ==
    LET st == ParseFold([file_diffs |-> <<>>, current_file |-> None,
                         current_diff_lines |-> <<>>], _normalize_diff(ls))
    IN  IF Truthy(st.current_file) /\ st.current_diff_lines # <<>>
        THEN SetKey(st.file_diffs, st.current_file, st.current_diff_lines)
        ELSE st.file_diffs

\* the test that puts diff_path in suffix_matches (filter_diff_for_files)
IsSuffixMatch(diff_path, file_path) ==
    IF EndsWith(diff_path, <<"/">> \o file_path)
       \/ EndsWith(file_path, <<"/">> \o diff_path)
    THEN TRUE
    ELSE IF EndsWith(diff_path, file_path) \/ EndsWith(file_path, diff_path)
    THEN Contains(file_path, <<"/">>) \/ Contains(diff_path, <<"/">>)
    ELSE FALSE

\* MatchedDiffPath without its exact-match test
MatchedDiffPath_NoExact(file_path, file_diffs) ==
    LET diff_paths == DOMAIN file_diffs
        suffix_matches == {dp \in diff_paths : IsSuffixMatch(dp, file_path)}
        basename_matches == {dp \in diff_paths : Basename(dp) = Basename(file_path)}
    IN  IF Cardinality(suffix_matches) = 1
        THEN CHOOSE dp \in suffix_matches : TRUE
        ELSE IF Cardinality(suffix_matches) > 1 THEN None
        ELSE IF Cardinality(basename_matches) = 1
        THEN CHOOSE dp \in basename_matches : TRUE
        ELSE None

\* matched_diff_path of one pass of filter_diff_for_files' loop, or None
MatchedDiffPath(file_path, file_diffs) ==
    LET diff_paths == DOMAIN file_diffs
        suffix_matches == {dp \in diff_paths : IsSuffixMatch(dp, file_path)}
        basename_matches == {dp \in diff_paths : Basename(dp) = Basename(file_path)}
    IN  IF file_path \in diff_paths THEN file_path
        ELSE IF Cardinality(suffix_matches) = 1
        THEN CHOOSE dp \in suffix_matches : TRUE
        ELSE IF Cardinality(suffix_matches) > 1 THEN None
        ELSE IF Cardinality(basename_matches) = 1
        THEN CHOOSE dp \in basename_matches : TRUE
        ELSE None

-----------------------------------------------------------------------------
(* Python's str.lower and re.search, for the patterns of the resolver's     *)
(* catalogues and of the anchors of the model: literals, '.', '^', '$',     *)
(* '\b', '\s', an escaped character, a character class, each possibly       *)
(* followed by '*'.                                                         *)

UpperLetters == <<"A", "B", "C", "D", "E", "F", "G", "H", "I", "J", "K", "L", "M", "N", "O", "P", "Q", "R", "S", "T", "U", "V", "W", "X", "Y", "Z">>
LowerLetters == <<"a", "b", "c", "d", "e", "f", "g", "h", "i", "j", "k", "l", "m", "n", "o", "p", "q", "r", "s", "t", "u", "v", "w", "x", "y", "z">>
IsUpper(c) == \E i \in 1..26 : UpperLetters[i] = c
IsLower(c) == \E i \in 1..26 : LowerLetters[i] = c
LowerChar(c) ==
    IF IsUpper(c) THEN LowerLetters[CHOOSE i \in 1..26 : UpperLetters[i] = c] ELSE c
\* s.lower()
Lower(s) == [i \in 1..Len(s) |-> LowerChar(s[i])]
\* \w
IsWordChar(c) == IsUpper(c) \/ IsLower(c) \/ IsDigit(c) \/ c = "_"

\* the index of the ']' that closes a class whose members start at j, or 0
RECURSIVE ReClassEnd(_, _)
ReClassEnd(p, j) ==
    IF j > Len(p) THEN 0
    ELSE IF p[j] = "\\" THEN ReClassEnd(p, j + 2)
    ELSE IF p[j] = "]" THEN j
    ELSE ReClassEnd(p, j + 1)

\* the indices of p that hold character c not preceded by a backslash
Unescaped(p, c) == {i \in 1..Len(p) : p[i] = c /\ (i = 1 \/ p[i - 1] # "\\")}

\* re.compile(p) raises re.error: unbalanced parenthesis, unterminated
\* class, nothing to repeat, or a backslash at the end
ReError(p) ==
    \/ Cardinality(Unescaped(p, "(")) # Cardinality(Unescaped(p, ")"))
    \/ \E i \in Unescaped(p, "[") : ReClassEnd(p, i + 1) = 0
    \/ p # <<>> /\ p[1] = "*"
    \/ Len(p) \in Unescaped(p, "\\")

\* the atom of p at index i, and the index n that follows it
ReAtomAt(p, i) ==
    LET c == p[i]
        e == ReClassEnd(p, i + 1)
        neg == i < Len(p) /\ p[i + 1] = "^"
    IN  IF c = "\\" THEN
            [n |-> i + 2, neg |-> FALSE, cs |-> {p[i + 1]},
             k |-> IF p[i + 1] = "b" THEN "bnd" ELSE IF p[i + 1] = "s" THEN "ws" ELSE "set"]
        ELSE IF c = "." THEN [n |-> i + 1, neg |-> FALSE, cs |-> {}, k |-> "any"]
        ELSE IF c = "^" THEN [n |-> i + 1, neg |-> FALSE, cs |-> {}, k |-> "bol"]
        ELSE IF c = "$" THEN [n |-> i + 1, neg |-> FALSE, cs |-> {}, k |-> "eol"]
        ELSE IF c = "[" THEN
            [n |-> e + 1, neg |-> neg, k |-> "set",
             cs |-> {p[j] : j \in {x \in (IF neg THEN i + 2 ELSE i + 1)..(e - 1) : p[x] # "\\"}}]
        ELSE [n |-> i + 1, neg |-> FALSE, cs |-> {c}, k |-> "set"]

\* the atoms of p from index i on, each with its '*'; ReAtomsAfter has the
\* atom a read at index i
RECURSIVE ReAtoms(_, _)
RECURSIVE ReAtomsAfter(_, _, _)
ReAtomsAfter(p, a, star) ==
    <<[k |-> a.k, cs |-> a.cs, neg |-> a.neg, star |-> star]>>
        \o ReAtoms(p, IF star THEN a.n + 1 ELSE a.n)
ReAtoms(p, i) ==
    IF i > Len(p) THEN <<>>
    ELSE ReAtomsAfter(p, ReAtomAt(p, i),
                      ReAtomAt(p, i).n <= Len(p) /\ p[ReAtomAt(p, i).n] = "*")

\* \b at position pos of text (between text[pos - 1] and text[pos])
IsBoundary(text, pos) ==
    (pos > 1 /\ IsWordChar(text[pos - 1])) # (pos <= Len(text) /\ IsWordChar(text[pos]))

\* atom a matches character c; ic is re.IGNORECASE
AtomMatches(a, c, ic) ==
    IF a.k = "any" THEN TRUE
    ELSE IF a.k = "ws" THEN IsSpace(c)
    ELSE IF ic THEN (LowerChar(c) \in {LowerChar(x) : x \in a.cs}) # a.neg
    ELSE (c \in a.cs) # a.neg

\* atoms[a..] match text from position pos
RECURSIVE ReMatchHere(_, _, _, _, _)
ReMatchHere(atoms, a, text, pos, ic) ==
    IF a > Len(atoms) THEN TRUE
    ELSE IF atoms[a].k = "bnd"
    THEN IsBoundary(text, pos) /\ ReMatchHere(atoms, a + 1, text, pos, ic)
    ELSE IF atoms[a].k = "bol"
    THEN pos = 1 /\ ReMatchHere(atoms, a + 1, text, pos, ic)
    ELSE IF atoms[a].k = "eol"
    THEN pos = Len(text) + 1 /\ ReMatchHere(atoms, a + 1, text, pos, ic)
    ELSE IF atoms[a].star
    THEN \/ ReMatchHere(atoms, a + 1, text, pos, ic)
         \/ /\ pos <= Len(text)
            /\ AtomMatches(atoms[a], text[pos], ic)
            /\ ReMatchHere(atoms, a, text, pos + 1, ic)
    ELSE /\ pos <= Len(text)
         /\ AtomMatches(atoms[a], text[pos], ic)
         /\ ReMatchHere(atoms, a + 1, text, pos + 1, ic)

\* re.search(p, text) or re.search(p, text, re.IGNORECASE) finds a match
ReSearch(p, text, ic) ==
    LET atoms == ReAtoms(p, 1)
    IN  \E pos \in 1..(Len(text) + 1) : ReMatchHere(atoms, 1, text, pos, ic)

-----------------------------------------------------------------------------
(* SemanticAnchorResolver *)

COMPOSE_PATTERNS ==
    << <<"\\", "b", "S", "l", "i", "d", "e", "r", "\\", "s", "*", "\\", "(">>, <<"\\", "b", "S", "w", "i", "t", "c", "h", "\\", "s", "*", "\\", "(">>, <<"\\", "b", "B", "u", "t", "t", "o", "n", "\\", "s", "*", "\\", "(">>, <<"\\", "b", "T", "e", "x", "t", "\\", "s", "*", "\\", "(">>,
       <<"\\", "b", "T", "e", "x", "t", "F", "i", "e", "l", "d", "\\", "s", "*", "\\", "(">>, <<"\\", "b", "O", "u", "t", "l", "i", "n", "e", "d", "T", "e", "x", "t", "F", "i", "e", "l", "d", "\\", "s", "*", "\\", "(">>, <<"\\", "b", "I", "c", "o", "n", "\\", "s", "*", "\\", "(">>,
       <<"\\", ".", "c", "l", "i", "c", "k", "a", "b", "l", "e", "\\", "s", "*", "[", "{", "\\", "(", "]">>, <<"\\", ".", "s", "e", "m", "a", "n", "t", "i", "c", "s", "\\", "s", "*", "[", "{", "\\", "(", "]">>, <<"\\", "b", "M", "o", "d", "i", "f", "i", "e", "r", "\\", ".">> >>

ANDROID_XML_PATTERNS ==
    << <<"a", "n", "d", "r", "o", "i", "d", ":", "c", "o", "n", "t", "e", "n", "t", "D", "e", "s", "c", "r", "i", "p", "t", "i", "o", "n">>, <<"a", "n", "d", "r", "o", "i", "d", ":", "h", "i", "n", "t">>, <<"a", "n", "d", "r", "o", "i", "d", ":", "t", "e", "x", "t", "\\", "s", "*", "=">>,
       <<"a", "n", "d", "r", "o", "i", "d", ":", "l", "a", "b", "e", "l", "F", "o", "r">>, <<"<", "B", "u", "t", "t", "o", "n", "\\", "b">>, <<"<", "I", "m", "a", "g", "e", "V", "i", "e", "w", "\\", "b">>, <<"<", "T", "e", "x", "t", "V", "i", "e", "w", "\\", "b">>,
       <<"<", "E", "d", "i", "t", "T", "e", "x", "t", "\\", "b">>, <<"<", "S", "w", "i", "t", "c", "h", "\\", "b">>, <<"<", "C", "h", "e", "c", "k", "B", "o", "x", "\\", "b">>, <<"<", "R", "a", "d", "i", "o", "B", "u", "t", "t", "o", "n", "\\", "b">>,
       <<"<", "S", "p", "i", "n", "n", "e", "r", "\\", "b">>, <<"<", "S", "e", "e", "k", "B", "a", "r", "\\", "b">> >>

SWIFTUI_PATTERNS ==
    << <<"\\", "b", "T", "e", "x", "t", "\\", "s", "*", "\\", "(">>, <<"\\", "b", "B", "u", "t", "t", "o", "n", "\\", "s", "*", "\\", "(">>, <<"\\", "b", "T", "o", "g", "g", "l", "e", "\\", "s", "*", "\\", "(">>, <<"\\", "b", "S", "l", "i", "d", "e", "r", "\\", "s", "*", "\\", "(">>,
       <<"\\", "b", "T", "e", "x", "t", "F", "i", "e", "l", "d", "\\", "s", "*", "\\", "(">>, <<"\\", "b", "S", "e", "c", "u", "r", "e", "F", "i", "e", "l", "d", "\\", "s", "*", "\\", "(">>, <<"\\", ".", "a", "c", "c", "e", "s", "s", "i", "b", "i", "l", "i", "t", "y", "L", "a", "b", "e", "l", "\\", "s", "*", "\\", "(">>,
       <<"\\", ".", "a", "c", "c", "e", "s", "s", "i", "b", "i", "l", "i", "t", "y", "H", "i", "n", "t", "\\", "s", "*", "\\", "(">>, <<"\\", ".", "a", "c", "c", "e", "s", "s", "i", "b", "i", "l", "i", "t", "y", "V", "a", "l", "u", "e", "\\", "s", "*", "\\", "(">>,
       <<"\\", ".", "a", "c", "c", "e", "s", "s", "i", "b", "i", "l", "i", "t", "y", "A", "d", "d", "T", "r", "a", "i", "t", "s", "\\", "s", "*", "\\", "(">> >>

UIKIT_PATTERNS ==
    << <<"\\", "b", "U", "I", "B", "u", "t", "t", "o", "n", "\\", "b">>, <<"\\", "b", "U", "I", "L", "a", "b", "e", "l", "\\", "b">>, <<"\\", "b", "U", "I", "I", "m", "a", "g", "e", "V", "i", "e", "w", "\\", "b">>, <<"\\", "b", "U", "I", "T", "e", "x", "t", "F", "i", "e", "l", "d", "\\", "b">>,
       <<"\\", "b", "U", "I", "S", "w", "i", "t", "c", "h", "\\", "b">>, <<"\\", "b", "U", "I", "S", "l", "i", "d", "e", "r", "\\", "b">>, <<"\\", ".", "a", "c", "c", "e", "s", "s", "i", "b", "i", "l", "i", "t", "y", "L", "a", "b", "e", "l", "\\", "s", "*", "=">>,
       <<"\\", ".", "a", "c", "c", "e", "s", "s", "i", "b", "i", "l", "i", "t", "y", "H", "i", "n", "t", "\\", "s", "*", "=">>, <<"\\", ".", "a", "c", "c", "e", "s", "s", "i", "b", "i", "l", "i", "t", "y", "T", "r", "a", "i", "t", "s", "\\", "s", "*", "=">> >>

REACT_WEB_PATTERNS ==
    << <<"<", "b", "u", "t", "t", "o", "n", "\\", "b">>, <<"<", "i", "n", "p", "u", "t", "\\", "b">>, <<"<", "i", "m", "g", "\\", "b">>, <<"<", "l", "a", "b", "e", "l", "\\", "b">>, <<"<", "s", "e", "l", "e", "c", "t", "\\", "b">>,
       <<"<", "t", "e", "x", "t", "a", "r", "e", "a", "\\", "b">>, <<"a", "r", "i", "a", "-", "l", "a", "b", "e", "l", "\\", "s", "*", "=">>, <<"a", "r", "i", "a", "-", "l", "a", "b", "e", "l", "l", "e", "d", "b", "y", "\\", "s", "*", "=">>,
       <<"a", "r", "i", "a", "-", "d", "e", "s", "c", "r", "i", "b", "e", "d", "b", "y", "\\", "s", "*", "=">>, <<"r", "o", "l", "e", "\\", "s", "*", "=">>, <<"a", "l", "t", "\\", "s", "*", "=">>, <<"o", "n", "C", "l", "i", "c", "k", "\\", "s", "*", "=">> >>

\* the items of the dict, in its order
ISSUE_KEYWORD_PATTERNS ==
    << [keyword |-> <<"s", "l", "i", "d", "e", "r">>, patterns |->
           << <<"\\", "b", "S", "l", "i", "d", "e", "r", "\\", "s", "*", "\\", "(">>, <<"<", "S", "e", "e", "k", "B", "a", "r", "\\", "b">>, <<"\\", "b", "U", "I", "S", "l", "i", "d", "e", "r", "\\", "b">>,
              <<"<", "i", "n", "p", "u", "t", "[", "^", ">", "]", "*", "t", "y", "p", "e", "\\", "s", "*", "=", "\\", "s", "*", "[", "\"", "\\", "'", "]", "r", "a", "n", "g", "e">> >>],
       [keyword |-> <<"s", "w", "i", "t", "c", "h">>, patterns |->
           << <<"\\", "b", "S", "w", "i", "t", "c", "h", "\\", "s", "*", "\\", "(">>, <<"<", "S", "w", "i", "t", "c", "h", "\\", "b">>, <<"\\", "b", "U", "I", "S", "w", "i", "t", "c", "h", "\\", "b">>,
              <<"<", "i", "n", "p", "u", "t", "[", "^", ">", "]", "*", "t", "y", "p", "e", "\\", "s", "*", "=", "\\", "s", "*", "[", "\"", "\\", "'", "]", "c", "h", "e", "c", "k", "b", "o", "x">> >>],
       [keyword |-> <<"t", "o", "g", "g", "l", "e">>, patterns |->
           << <<"\\", "b", "T", "o", "g", "g", "l", "e", "\\", "s", "*", "\\", "(">>, <<"\\", "b", "S", "w", "i", "t", "c", "h", "\\", "s", "*", "\\", "(">>, <<"<", "S", "w", "i", "t", "c", "h", "\\", "b">> >>],
       [keyword |-> <<"b", "u", "t", "t", "o", "n">>, patterns |->
           << <<"\\", "b", "B", "u", "t", "t", "o", "n", "\\", "s", "*", "\\", "(">>, <<"<", "B", "u", "t", "t", "o", "n", "\\", "b">>, <<"\\", "b", "U", "I", "B", "u", "t", "t", "o", "n", "\\", "b">>, <<"<", "b", "u", "t", "t", "o", "n", "\\", "b">> >>],
       [keyword |-> <<"t", "e", "x", "t">>, patterns |->
           << <<"\\", "b", "T", "e", "x", "t", "\\", "s", "*", "\\", "(">>, <<"<", "T", "e", "x", "t", "V", "i", "e", "w", "\\", "b">>, <<"\\", "b", "U", "I", "L", "a", "b", "e", "l", "\\", "b">>, <<"<", "l", "a", "b", "e", "l", "\\", "b">> >>],
       [keyword |-> <<"t", "e", "x", "t", "f", "i", "e", "l", "d">>, patterns |->
           << <<"\\", "b", "T", "e", "x", "t", "F", "i", "e", "l", "d", "\\", "s", "*", "\\", "(">>, <<"\\", "b", "O", "u", "t", "l", "i", "n", "e", "d", "T", "e", "x", "t", "F", "i", "e", "l", "d", "\\", "s", "*", "\\", "(">>, <<"<", "E", "d", "i", "t", "T", "e", "x", "t", "\\", "b">>,
              <<"\\", "b", "U", "I", "T", "e", "x", "t", "F", "i", "e", "l", "d", "\\", "b">>, <<"<", "i", "n", "p", "u", "t", "\\", "b">> >>],
       [keyword |-> <<"i", "m", "a", "g", "e">>, patterns |->
           << <<"<", "I", "m", "a", "g", "e", "V", "i", "e", "w", "\\", "b">>, <<"\\", "b", "U", "I", "I", "m", "a", "g", "e", "V", "i", "e", "w", "\\", "b">>, <<"<", "i", "m", "g", "\\", "b">>, <<"\\", "b", "I", "c", "o", "n", "\\", "s", "*", "\\", "(">> >>],
       [keyword |-> <<"c", "h", "e", "c", "k", "b", "o", "x">>, patterns |->
           << <<"<", "C", "h", "e", "c", "k", "B", "o", "x", "\\", "b">>, <<"<", "i", "n", "p", "u", "t", "[", "^", ">", "]", "*", "t", "y", "p", "e", "\\", "s", "*", "=", "\\", "s", "*", "[", "\"", "\\", "'", "]", "c", "h", "e", "c", "k", "b", "o", "x">> >>],
       [keyword |-> <<"r", "a", "d", "i", "o">>, patterns |->
           << <<"<", "R", "a", "d", "i", "o", "B", "u", "t", "t", "o", "n", "\\", "b">>, <<"<", "i", "n", "p", "u", "t", "[", "^", ">", "]", "*", "t", "y", "p", "e", "\\", "s", "*", "=", "\\", "s", "*", "[", "\"", "\\", "'", "]", "r", "a", "d", "i", "o">> >>],
       [keyword |-> <<"l", "a", "b", "e", "l">>, patterns |->
           << <<"a", "c", "c", "e", "s", "s", "i", "b", "i", "l", "i", "t", "y", "L", "a", "b", "e", "l">>, <<"a", "n", "d", "r", "o", "i", "d", ":", "c", "o", "n", "t", "e", "n", "t", "D", "e", "s", "c", "r", "i", "p", "t", "i", "o", "n">>, <<"a", "r", "i", "a", "-", "l", "a", "b", "e", "l">>,
              <<"a", "l", "t", "\\", "s", "*", "=">> >>],
       [keyword |-> <<"h", "i", "n", "t">>, patterns |->
           << <<"a", "c", "c", "e", "s", "s", "i", "b", "i", "l", "i", "t", "y", "H", "i", "n", "t">>, <<"a", "n", "d", "r", "o", "i", "d", ":", "h", "i", "n", "t">>, <<"a", "r", "i", "a", "-", "d", "e", "s", "c", "r", "i", "b", "e", "d", "b", "y">> >>],
       [keyword |-> <<"c", "o", "n", "t", "e", "n", "t", "d", "e", "s", "c", "r", "i", "p", "t", "i", "o", "n">>, patterns |->
           << <<"a", "n", "d", "r", "o", "i", "d", ":", "c", "o", "n", "t", "e", "n", "t", "D", "e", "s", "c", "r", "i", "p", "t", "i", "o", "n">>, <<"c", "o", "n", "t", "e", "n", "t", "D", "e", "s", "c", "r", "i", "p", "t", "i", "o", "n", "\\", "s", "*", "=">> >>] >>

\* the role suffixes of element_name_pattern
RoleSuffixes ==
    { <<"F", "i", "e", "l", "d">>, <<"V", "i", "e", "w">>, <<"B", "u", "t", "t", "o", "n">>, <<"T", "e", "x", "t">>, <<"I", "c", "o", "n">>, <<"S", "l", "i", "d", "e", "r">>, <<"S", "w", "i", "t", "c", "h">>, <<"T", "o", "g", "g", "l", "e">>,
      <<"L", "a", "b", "e", "l">> }

\* the concatenation of the sequences of a sequence
RECURSIVE Flatten(_)
Flatten(ss) == IF ss = <<>> THEN <<>> ELSE Head(ss) \o Flatten(Tail(ss))

\* the first index >= i of s that holds no word character
RECURSIVE WordEnd(_, _)
WordEnd(s, i) == IF i <= Len(s) /\ IsWordChar(s[i]) THEN WordEnd(s, i + 1) ELSE i

\* w is matched by [A-Z][a-z]+(?:Field|View|...|Label) as a whole
IsElementName(w) ==
    \E suffix \in RoleSuffixes :
        /\ EndsWith(w, suffix)
        /\ Len(w) - Len(suffix) >= 2
        /\ IsUpper(w[1])
        /\ \A i \in 2..(Len(w) - Len(suffix)) : IsLower(w[i])

\* the matches of re.finditer(element_name_pattern, text) from index i on:
\* the words of text, between two \b, that are element names
RECURSIVE ElementNames(_, _)
ElementNames(text, i) ==
    IF i > Len(text) THEN <<>>
    ELSE IF ~IsWordChar(text[i]) THEN ElementNames(text, i + 1)
    ELSE LET w == SubSeq(text, i, WordEnd(text, i) - 1)
         IN  (IF IsElementName(w) THEN <<w>> ELSE <<>>)
                \o ElementNames(text, WordEnd(text, i))

\* Path(file_path).suffix
PathSuffix(file_path) ==
    LET name == Basename(file_path)
        dots == {i \in 1..Len(name) : name[i] = "."}
        last == CHOOSE i \in dots : \A j \in dots : j <= i
    IN  IF dots = {} THEN <<>>
        ELSE IF last = 1 \/ last = Len(name) THEN <<>>
        ELSE DropFirst(name, last - 1)

\* the catalogue of a file extension (step 4 of extract_anchor_candidates)
FrameworkPatterns(file_extension) ==
    LET ext == Lower(file_extension)
    IN  IF ext \in {<<".", "k", "t">>, <<".", "k", "t", "s">>} THEN COMPOSE_PATTERNS
        ELSE IF ext = <<".", "x", "m", "l">> THEN ANDROID_XML_PATTERNS
        ELSE IF ext = <<".", "s", "w", "i", "f", "t">> THEN SWIFTUI_PATTERNS \o UIKIT_PATTERNS
        ELSE IF ext \in {<<".", "t", "s", "x">>, <<".", "j", "s", "x">>, <<".", "t", "s">>, <<".", "j", "s">>, <<".", "h", "t", "m", "l">>, <<".", "c", "s", "s">>}
        THEN REACT_WEB_PATTERNS
        ELSE <<>>

\* ExplicitAnchor for a resolver that does not look at the explicit anchor
ExplicitAnchor_Unread(issue) == None

\* issue.get('anchor_text') or issue.get('anchor'); the issues of the model
\* have no 'anchor' and no 'description' key
ExplicitAnchor(issue) == IF Truthy(issue.anchor_text) THEN issue.anchor_text ELSE None

\* step 2 of extract_anchor_candidates: the patterns of the keywords in
\* combined_text, for the items of ISSUE_KEYWORD_PATTERNS
KeywordCandidates(combined_text, items) ==
    Flatten([i \in 1..Len(items) |->
               IF Contains(combined_text, items[i].keyword)
               THEN items[i].patterns ELSE <<>>])

\* step 3: the three candidates of each element name
ElementCandidates(names) ==
    Flatten([i \in 1..Len(names) |->
               <<names[i], names[i] \o <<"(">>, <<"<">> \o names[i]>>])

extract_anchor_candidates(issue, file_extension) ==
    (IF ExplicitAnchor(issue) # None THEN <<ExplicitAnchor(issue)>> ELSE <<>>)
    \o KeywordCandidates(Lower(issue.title) \o <<" ">>, ISSUE_KEYWORD_PATTERNS)
    \o ElementCandidates(ElementNames(issue.title \o <<" ">>, 1))
    \o (IF file_extension # <<>> THEN FrameworkPatterns(file_extension) ELSE <<>>)

\* whether resolve_anchor_line reads candidate as a regular expression
is_regex_pattern(candidate) ==
    \/ \E e \in {"b", "s", "("} : Contains(candidate, <<"\\", e>>)
    \/ \E i \in 1..Len(candidate) : candidate[i] \in {"[", "^", "$", ".", "*"}

\* candidate puts line_text in `matches`; a re.error skips the candidate
CandidateMatches(candidate, line_text) ==
    IF is_regex_pattern(candidate)
    THEN /\ ~ReError(candidate)
         /\ (ReSearch(candidate, line_text, FALSE) \/ ReSearch(candidate, line_text, TRUE))
    ELSE Contains(line_text, candidate) \/ Contains(Lower(line_text), Lower(candidate))

\* the items of right_line_to_text that go to `matches`, in the dict's order
RECURSIVE MatchingLines(_, _)
MatchingLines(right_line_to_text, anchor_candidates) ==
    IF right_line_to_text = <<>> THEN <<>>
    ELSE LET e == Head(right_line_to_text)
             hit == /\ e.text # <<>>
                    /\ \E c \in 1..Len(anchor_candidates) :
                           CandidateMatches(anchor_candidates[c], e.text)
         IN  (IF hit THEN <<e>> ELSE <<>>)
                \o MatchingLines(Tail(right_line_to_text), anchor_candidates)

\* the line number that stands for Python's None
NoLine == -1

\* BestMatch keeping the last of the matches at the smallest distance
BestMatch_LastOfTies(matches, reference_line) ==
    LET distance(i) == Abs(matches[i].line - reference_line)
        best == CHOOSE i \in 1..Len(matches) : \A j \in 1..Len(matches) :
                    distance(i) < distance(j) \/ (distance(i) = distance(j) /\ i >= j)
    IN  IF matches = <<>> THEN [line |-> NoLine, text |-> None]
        ELSE [line |-> matches[best].line, text |-> Strip(matches[best].text)]

\* step 3 of resolve_anchor_line: the match chosen among `matches`
BestMatch(matches, reference_line) ==
    LET distance(i) == Abs(matches[i].line - reference_line)
        best == IF reference_line > 0
                THEN CHOOSE i \in 1..Len(matches) : \A j \in 1..Len(matches) :
                        distance(i) < distance(j) \/ (distance(i) = distance(j) /\ i <= j)
                ELSE CHOOSE i \in 1..Len(matches) : \A j \in 1..Len(matches) :
                        matches[i].line < matches[j].line
                        \/ (matches[i].line = matches[j].line /\ i <= j)
    IN  IF matches = <<>> THEN [line |-> NoLine, text |-> None]
        ELSE IF Len(matches) = 1
        THEN [line |-> matches[1].line, text |-> Strip(matches[1].text)]
        ELSE [line |-> matches[best].line, text |-> Strip(matches[best].text)]

\* steps 2 and 3 of resolve_anchor_line
ResolveAmong(right_line_to_text, anchor_candidates, reference_line) ==
    IF anchor_candidates = <<>> THEN [line |-> NoLine, text |-> None]
    ELSE BestMatch(MatchingLines(right_line_to_text, anchor_candidates), reference_line)

\* resolve_anchor_line(issue, right_line_to_text, fallback_line, file_extension):
\* right_line_to_text is the dict's items in its order
resolve_anchor_line(issue, right_line_to_text, fallback_line, file_extension) ==
    IF right_line_to_text = <<>> THEN [line |-> NoLine, text |-> None]
    ELSE ResolveAmong(right_line_to_text,
                      IF ExplicitAnchor(issue) # None THEN <<ExplicitAnchor(issue)>>
                      ELSE extract_anchor_candidates(issue, file_extension),
                      IF issue.line # 0 THEN issue.line
                      ELSE IF fallback_line # NoLine THEN fallback_line ELSE 0)

\* d[key] = value for a dict kept as the sequence of its items
DictSet(d, key, value) ==
    IF \E i \in 1..Len(d) : d[i].line = key
    THEN [i \in 1..Len(d) |-> IF d[i].line = key THEN [line |-> key, text |-> value] ELSE d[i]]
    ELSE Append(d, [line |-> key, text |-> value])

\* x in a list
InList(x, list) == \E i \in 1..Len(list) : list[i] = x

\* one pass of the loop of extract_commentable_line_texts
extract_commentable_line_texts_line(st, line, lines_of) ==
    IF StartsWith(line, FileHeaderPrefix) THEN
        LET file == DropFirst(line, 6)
        IN  [st EXCEPT !.current_file = file,
                       !.in_hunk = FALSE,
                       !.line_texts = IF file \in DOMAIN lines_of
                                      THEN SetKey(st.line_texts, file, <<>>)
                                      ELSE st.line_texts]
    ELSE IF HunkMatch(line).matched /\ Truthy(st.current_file) THEN
        [st EXCEPT !.current_line = HunkMatch(line).start, !.in_hunk = TRUE]
    ELSE IF st.in_hunk /\ Truthy(st.current_file)
            /\ st.current_file \in DOMAIN lines_of THEN
        IF \/ StartsWith(line, <<"+">>) /\ ~StartsWith(line, <<"+", "+", "+">>)
           \/ StartsWith(line, <<" ">>)
        THEN [st EXCEPT !.current_line = @ + 1,
                        !.line_texts[st.current_file] =
                            IF InList(st.current_line, lines_of[st.current_file])
                            THEN DictSet(@, st.current_line, DropFirst(line, 1))
                            ELSE @]
        ELSE st
    ELSE st

RECURSIVE LineTextsFold(_, _, _)
LineTextsFold(st, ls, lines_of) ==
    IF ls = <<>> THEN st
    ELSE LineTextsFold(extract_commentable_line_texts_line(st, Head(ls), lines_of),
                       Tail(ls), lines_of)

\* extract_commentable_line_texts(diff_text, lines_of)
extract_commentable_line_texts(ls, lines_of) ==
    LineTextsFold([line_texts |-> <<>>, current_file |-> None, current_line |-> 0,
                   in_hunk |-> FALSE], ls, lines_of).line_texts

-----------------------------------------------------------------------------
(* DiffParser.find_nearest_commentable_line, validate_issues_in_batch *)

\* the default of max_distance
MaxDistance == 10

\* find_nearest_commentable_line returning its target
find_nearest_commentable_line_Target(target_line, lines, max_distance) == target_line

\* find_nearest_commentable_line without its bound
find_nearest_commentable_line_Unbounded(target_line, lines, max_distance) ==
    LET distance(i) == Abs(lines[i] - target_line)
    IN  IF lines = <<>> THEN NoLine
        ELSE IF InList(target_line, lines) THEN target_line
        ELSE lines[CHOOSE i \in 1..Len(lines) : \A j \in 1..Len(lines) :
                      distance(i) < distance(j) \/ (distance(i) = distance(j) /\ i <= j)]

find_nearest_commentable_line(target_line, lines, max_distance) ==
    LET distance(i) == Abs(lines[i] - target_line)
        near == {i \in 1..Len(lines) : distance(i) <= max_distance}
    IN  IF lines = <<>> THEN NoLine
        ELSE IF InList(target_line, lines) THEN target_line
        ELSE IF near = {} THEN NoLine
        ELSE lines[CHOOSE i \in near : \A j \in near :
                      distance(i) < distance(j) \/ (distance(i) = distance(j) /\ i <= j)]

\* `if diff_text:` for a text kept as its lines
HasText(diff) == diff # None /\ diff # << <<>> >>

\* KeepLine moving the line
KeepLine_Moved(issue) ==
    [kept |-> TRUE, reason_code |-> None, issue |-> [issue EXCEPT !.line = @ - 1]]

\* the end of one pass for a line that is commentable: the issue is appended
\* as it is
KeepLine(issue) == [kept |-> TRUE, issue |-> issue, reason_code |-> None]

\* AdjustLine without the anchor resolution
AdjustLine_NearestOnly(issue, anchor_attempted, resolved, nearest) ==
    IF nearest # NoLine /\ nearest # 0
    THEN [kept |-> TRUE, reason_code |-> None,
          issue |-> [issue EXCEPT !.line = nearest]]
    ELSE [kept |-> FALSE, issue |-> issue,
          reason_code |-> IF anchor_attempted THEN <<"nearest_commentable_none">>
                          ELSE <<"line_not_commentable">>]

\* AdjustLine clearing the title of an issue it moves or drops
AdjustLine_TitleCleared(issue, anchor_attempted, resolved, nearest) ==
    IF resolved.line # NoLine /\ resolved.line # 0
    THEN [kept |-> TRUE, reason_code |-> None,
          issue |-> [issue EXCEPT !.line = resolved.line,
                                  !._anchor_matched_text = resolved.text]]
    ELSE IF nearest # NoLine /\ nearest # 0
    THEN [kept |-> TRUE, reason_code |-> None,
          issue |-> [issue EXCEPT !.line = nearest, !.title = <<>>]]
    ELSE [kept |-> FALSE, issue |-> [issue EXCEPT !.title = <<>>],
          reason_code |-> <<"line_not_commentable">>]

\* AdjustLine without the fallback to the nearest line
AdjustLine_NoFallback(issue, anchor_attempted, resolved, nearest) ==
    IF resolved.line # NoLine /\ resolved.line # 0
    THEN [kept |-> TRUE, reason_code |-> None,
          issue |-> [issue EXCEPT !.line = resolved.line,
                                  !._anchor_matched_text = resolved.text]]
    ELSE [kept |-> FALSE, issue |-> issue,
          reason_code |-> IF anchor_attempted THEN <<"nearest_commentable_none">>
                          ELSE <<"line_not_commentable">>]

\* the end of one pass of `for issue in issues`, for a line that is not
\* commentable: resolved is what resolve_anchor_line returned, if called.
\* The reason code of an issue kept at the nearest line is that of the event
\* recorded for it.
AdjustLine(issue, anchor_attempted, resolved, nearest) ==
    IF resolved.line # NoLine /\ resolved.line # 0
    THEN [kept |-> TRUE, reason_code |-> None,
          issue |-> [issue EXCEPT !.line = resolved.line,
                                  !._anchor_matched_text = resolved.text]]
    ELSE IF nearest # NoLine /\ nearest # 0
    THEN [kept |-> TRUE,
          reason_code |-> IF anchor_attempted THEN <<"anchor_not_found">> ELSE None,
          issue |-> [issue EXCEPT !.line = nearest]]
    ELSE [kept |-> FALSE, issue |-> issue,
          reason_code |-> IF anchor_attempted THEN <<"nearest_commentable_none">>
                          ELSE <<"line_not_commentable">>]

\* validate_issue testing the line before the file
validate_issue_LineFirst(issue, batch, lines_of, diff, texts_of) ==
    IF issue.line <= 0
    THEN [kept |-> FALSE, issue |-> issue, reason_code |-> <<"invalid_line_number">>]
    ELSE IF ~InList(issue.file, batch)
    THEN [kept |-> FALSE, issue |-> issue, reason_code |-> <<"file_not_in_batch">>]
    ELSE KeepLine(issue)

\* One pass of `for issue in issues` of validate_issues_in_batch: whether the
\* issue is appended to `validated`, the issue as it then is, and the
\* reason code: the one printed when it is dropped, the one of the event when
\* it is moved to the nearest line.
validate_issue(issue, batch, lines_of, diff, texts_of) ==
    IF ~InList(issue.file, batch)
    THEN [kept |-> FALSE, issue |-> issue, reason_code |-> <<"file_not_in_batch">>]
    ELSE IF issue.line <= 0
    THEN [kept |-> FALSE, issue |-> issue, reason_code |-> <<"invalid_line_number">>]
    ELSE IF issue.file \notin DOMAIN lines_of \/ lines_of[issue.file] = <<>>
    THEN [kept |-> FALSE, issue |-> issue,
          reason_code |-> <<"no_commentable_lines_for_file">>]
    ELSE IF InList(issue.line, lines_of[issue.file])
    THEN KeepLine(issue)
    ELSE AdjustLine(issue,
                    HasText(diff) /\ issue.file \in DOMAIN texts_of,
                    IF HasText(diff) /\ issue.file \in DOMAIN texts_of
                    THEN resolve_anchor_line(issue, texts_of[issue.file], issue.line,
                                             PathSuffix(issue.file))
                    ELSE [line |-> NoLine, text |-> None],
                    find_nearest_commentable_line(issue.line, lines_of[issue.file],
                                                  MaxDistance))

\* app.constants.WEB_EXTENSIONS
WEB_EXTENSIONS ==
    { <<".", "t", "s", "x">>, <<".", "t", "s">>, <<".", "j", "s", "x">>, <<".", "j", "s">>,
      <<".", "c", "s", "s">>, <<".", "h", "t", "m", "l">> }

_is_web_file(file_path) ==
    StartsWith(file_path, <<"w", "e", "b", "/">>) \/ PathSuffix(file_path) \in WEB_EXTENSIONS

\* drop_reason_events for every file
drop_reason_events_AnyFile(issue, r, debug) ==
    IF debug /\ r.reason_code # None
    THEN << [file |-> issue.file, line |-> issue.line, reason_code |-> r.reason_code[1],
             title |-> TakeFirst(issue.title, 60),
             adjusted_to |-> IF r.kept THEN r.issue.line ELSE NoLine] >>
    ELSE <<>>

\* what a pass appends to drop_reasons: the event of a drop or of a move to
\* the nearest line after a failed anchor search, for a web file when
\* DEBUG_WEB_REVIEW is set (the keys reason and those of the closest files
\* are left out; adjusted_to is NoLine where the key is absent)
drop_reason_events(issue, r, debug) ==
    IF debug /\ _is_web_file(issue.file) /\ r.reason_code # None
    THEN << [file |-> issue.file, line |-> issue.line, reason_code |-> r.reason_code[1],
             title |-> TakeFirst(issue.title, 60),
             adjusted_to |-> IF r.kept THEN r.issue.line ELSE NoLine] >>
    ELSE <<>>

-----------------------------------------------------------------------------
(* handle_pull_request.is_near_existing_comment (webhook_server.py)         *)
(*                                                                          *)
(* posted_locations is a set of tuples (file, line) and (file, line,        *)
(* body_snippet); a dict cannot be a member of a set, so the dict branch    *)
(* is not taken.  The issue passed by post_batch_comments is a dict with    *)
(* keys, so `if issue` holds.                                               *)

\* range_threshold: int = 5
RangeThreshold == 5

\* "".join(s.split())
RemoveSpace(s) == SelectSeq(s, LAMBDA c : ~IsSpace(c))

\* str(issue.get("title", "")).strip()[:50].lower(), and the same for the
\* snippet of an entry
NormalizeTitle(title) == Lower(TakeFirst(Strip(title), 50))

\* issue_anchor
IssueAnchor(issue) ==
    IF Truthy(issue._anchor_matched_text) THEN Lower(Strip(issue._anchor_matched_text))
    ELSE IF Truthy(issue.anchor_text) THEN Lower(Strip(issue.anchor_text))
    ELSE <<>>

\* existing_snippet of a tuple entry
EntrySnippet(entry) ==
    IF Len(entry) >= 3 /\ Truthy(entry[3]) THEN entry[3] ELSE <<>>

\* the whole of the shorter title
FuzzyThreshold_Whole(min_len) == min_len

\* int(min_len * 0.8)
FuzzyThreshold(min_len) == (min_len * 8) \div 10

\* the title check: its match_reason, "" when is_same_issue stays False
TitleMatch(issue_title, existing_title) ==
    IF issue_title # <<>> /\ existing_title # <<>>
    THEN IF issue_title = existing_title THEN "exact title match"
         ELSE IF /\ Len(issue_title) >= 30
                 /\ Len(existing_title) >= 30
                 /\ TakeFirst(issue_title,
                              FuzzyThreshold(Min(Len(issue_title), Len(existing_title))))
                      = TakeFirst(existing_title,
                              FuzzyThreshold(Min(Len(issue_title), Len(existing_title))))
         THEN "fuzzy title match"
         ELSE ""
    ELSE ""

\* re.match(r'^([a-z0-9_]+)', s).group(1), <<>> when there is no match
RECURSIVE KeywordEnd(_, _)
KeywordEnd(s, i) ==
    IF i <= Len(s) /\ (IsLower(s[i]) \/ IsDigit(s[i]) \/ s[i] = "_")
    THEN KeywordEnd(s, i + 1)
    ELSE i

AnchorKeyword(s) == SubSeq(s, 1, KeywordEnd(s, 1) - 1)

\* the anchor checks on the normalized anchor and snippet
AnchorSignature(anchor_normalized, snippet_normalized) ==
    IF /\ anchor_normalized # <<>>
       /\ Len(anchor_normalized) >= 3
       /\ Contains(snippet_normalized, anchor_normalized)
    THEN "anchor signature match"
    ELSE IF /\ anchor_normalized # <<>>
            /\ Len(AnchorKeyword(anchor_normalized)) >= 4
            /\ Contains(snippet_normalized, AnchorKeyword(anchor_normalized))
    THEN "anchor signature match"
    ELSE ""

AnchorMatch(issue_anchor, existing_snippet) ==
    IF issue_anchor # <<>> /\ existing_snippet # <<>>
    THEN AnchorSignature(TakeFirst(Lower(RemoveSpace(issue_anchor)), 40),
                         Lower(RemoveSpace(existing_snippet)))
    ELSE ""

\* is_same_issue answering for proximity alone
SameIssue_Proximity(issue_title, issue_anchor, existing_snippet) == "near"

\* is_same_issue and match_reason for one entry within range: the reason,
\* "" when it is not the same issue
SameIssue(issue_title, issue_anchor, existing_snippet) ==
    IF issue_title # <<>> \/ issue_anchor # <<>>
    THEN IF TitleMatch(issue_title, NormalizeTitle(existing_snippet)) # ""
         THEN TitleMatch(issue_title, NormalizeTitle(existing_snippet))
         ELSE AnchorMatch(issue_anchor, existing_snippet)
    ELSE ""

\* InRange without the boundary distance
InRange_Strict(entry, file_path, line, range_threshold) ==
    /\ entry[1] = file_path
    /\ Abs(entry[2] - line) < range_threshold

\* the entry is on the file and within the range
InRange(entry, file_path, line, range_threshold) ==
    /\ entry[1] = file_path
    /\ Abs(entry[2] - line) <= range_threshold

\* what is returned when the loop stops at the entry
Suppressed(entry, line, match_reason) ==
    [should_skip |-> TRUE, skip_reason |-> match_reason,
     matched_entry |-> [file |-> entry[1], line |-> entry[2],
                        distance |-> Abs(entry[2] - line),
                        snippet |-> TakeFirst(EntrySnippet(entry), 100)]]

NotSuppressed == [should_skip |-> FALSE, skip_reason |-> "", matched_entry |-> None]

\* the entries at which the loop can stop
SameIssueEntries(file_path, line, issue_title, issue_anchor, range_threshold, posted) ==
    {entry \in posted :
        /\ InRange(entry, file_path, line, range_threshold)
        /\ SameIssue(issue_title, issue_anchor, EntrySnippet(entry)) # ""}

\* the values is_near_existing_comment can return: the loop stops at the
\* first same-issue entry in the iteration order of the set, which is any of
\* them
is_near_existing_comment(file_path, line, issue, range_threshold, posted) ==
    IF SameIssueEntries(file_path, line, NormalizeTitle(issue.title), IssueAnchor(issue),
                        range_threshold, posted) = {}
    THEN {NotSuppressed}
    ELSE {Suppressed(entry, line,
                     SameIssue(NormalizeTitle(issue.title), IssueAnchor(issue),
                               EntrySnippet(entry))) :
            entry \in SameIssueEntries(file_path, line, NormalizeTitle(issue.title),
                                       IssueAnchor(issue), range_threshold, posted)}

-----------------------------------------------------------------------------
(* The state of a part of the program that is not running *)

IndexIdle ==
    /\ nlines = 0
    /\ line_read = None
    /\ commentable = <<>>
    /\ current_file = None
    /\ current_line = 0
    /\ in_hunk = FALSE
    /\ raised = FALSE
    /\ gFile = None
    /\ gStart = 0
    /\ gOld = 0
    /\ gNew = 0
    /\ gK = 0
    /\ gBody = <<>>

FilterIdle ==
    /\ full_diff = <<>>
    /\ file_paths = <<>>
    /\ parsed = <<>>
    /\ filtered_sections = <<>>
    /\ matched_paths = <<>>
    /\ filter_pc = "idle"
    /\ gSections = <<>>

ValidateIdle ==
    /\ batch_files = <<>>
    /\ diff_text = None
    /\ commentable_lines = <<>>
    /\ line_texts = <<>>
    /\ issues = <<>>
    /\ validated = <<>>
    /\ dropped = <<>>
    /\ debug_web_review = FALSE
    /\ drop_reasons = <<>>
    /\ issues_now = <<>>
    /\ validated_at = <<>>
    /\ validate_pc = "idle"

SuppressIdle ==
    /\ posted_locations = {}
    /\ new_issues = <<>>
    /\ near_calls = <<>>
    /\ suppress_pc = "idle"

DedupeIdle ==
    /\ dedupe_issues = <<>>
    /\ fingerprints = <<>>
    /\ seen_fingerprints = {}
    /\ out = <<>>

NearestIdle == nearest_calls = <<>>

ParseIdle ==
    /\ parse_text = None
    /\ parse_normal = None
    /\ parse_sections = <<>>
    /\ parse_lines = <<>>
    /\ parse_texts = <<>>

PhaseIdle ==
    /\ fetched_locations = None
    /\ existing_locations = None
    /\ run_posted_locations = {}
    /\ phase_calls = <<>>

CoreIdle == IndexIdle /\ FilterIdle /\ ValidateIdle /\ SuppressIdle

HeaderlessIdle == headerless_call = <<>>

StatusIdle == final_status = <<>>

ResolveIdle == resolve_call = <<>>

BatchIdle == batch_review = <<>>

RunIdle ==
    /\ batch_idx = 0
    /\ all_issues = <<>>
    /\ handed = <<>>
    /\ run_pc = "loop"

ExtIdle == HeaderlessIdle /\ StatusIdle /\ ResolveIdle /\ BatchIdle /\ RunIdle

AuxIdle == DedupeIdle /\ NearestIdle /\ ParseIdle /\ PhaseIdle /\ ExtIdle

-----------------------------------------------------------------------------
(* The diffs read by extract_commentable_lines, one line at a time.  The    *)
(* text is a unified diff: after a hunk header `@@ -a,b +c,d @@` come the   *)
(* b old-file and d new-file lines it announces ('-' lines count for b,     *)
(* '+' lines for d, ' ' lines for both).                                    *)

\* bounds of the diffs
MaxLines == 6
MaxCount == 2

Files == {<<"f">>, <<"g">>}
StartLines == {1, 10}
\* what follows the marker on a body line
Contents == {<<"x">>, <<"+", "+", "i">>}
NoNewlineLine == <<"\\", " ", "N", "o">>
HeaderLines(f) ==
    {<<>>,
     <<"d", "i", "f", "f", " ", "-", "-", "g", "i", "t", " ", "a", "/">> \o f
        \o <<" ", "b", "/">> \o f,
     <<"-", "-", "-", " ", "a", "/">> \o f}

\* `@@ -1[,old] +start[,new] @@`; a count of 1 may be left out
HunkHeaderLine(old, start, new, short) ==
    <<"@", "@", " ", "-", "1">>
        \o (IF short /\ old = 1 THEN <<>> ELSE <<",">> \o IntToStr(old))
        \o <<" ", "+">> \o IntToStr(start)
        \o (IF short /\ new = 1 THEN <<>> ELSE <<",">> \o IntToStr(new))
        \o <<" ", "@", "@">>

Locals ==
    [commentable |-> commentable, current_file |-> current_file,
     current_line |-> current_line, in_hunk |-> in_hunk, raised |-> raised]

\* the loop of extract_commentable_lines reads `line`
Read(line) ==
    LET st == extract_commentable_lines_line(Locals, line)
    IN  /\ ~raised
        /\ nlines < MaxLines
        /\ nlines' = nlines + 1
        /\ line_read' = line
        /\ commentable' = st.commentable
        /\ current_file' = st.current_file
        /\ current_line' = st.current_line
        /\ in_hunk' = st.in_hunk
        /\ raised' = st.raised
        /\ UNCHANGED <<fltVars, valVars, supVars, auxVars>>

InBody == gOld > 0 \/ gNew > 0

ReadFileHeader ==
    \E f \in Files :
        /\ ~InBody
        /\ f \notin DOMAIN gBody
        /\ Read(FileHeaderPrefix \o f)
        /\ gFile' = f
        /\ gBody' = SetKey(gBody, f, <<>>)
        /\ UNCHANGED <<gStart, gOld, gNew, gK>>

ReadHunkHeader ==
    \E old \in 0..1, new \in 0..MaxCount, start \in StartLines, short \in BOOLEAN :
        /\ ~InBody
        /\ gFile # None
        /\ old + new > 0
        /\ short => (old = 1 \/ new = 1)
        /\ Read(HunkHeaderLine(old, start, new, short))
        /\ gStart' = start
        /\ gOld' = old
        /\ gNew' = new
        /\ gK' = 0
        /\ UNCHANGED <<gFile, gBody>>

ReadAdded ==
    \E c \in Contents :
        /\ gNew > 0
        /\ Read(<<"+">> \o c)
        /\ gNew' = gNew - 1
        /\ gK' = gK + 1
        /\ gBody' = [gBody EXCEPT ![gFile] = Append(@, gStart + gK)]
        /\ UNCHANGED <<gFile, gStart, gOld>>

ReadContext ==
    \E c \in Contents :
        /\ gNew > 0 /\ gOld > 0
        /\ Read(<<" ">> \o c)
        /\ gNew' = gNew - 1
        /\ gOld' = gOld - 1
        /\ gK' = gK + 1
        /\ gBody' = [gBody EXCEPT ![gFile] = Append(@, gStart + gK)]
        /\ UNCHANGED <<gFile, gStart>>

ReadRemoved ==
    \E c \in Contents :
        /\ gOld > 0
        /\ Read(<<"-">> \o c)
        /\ gOld' = gOld - 1
        /\ UNCHANGED <<gFile, gStart, gNew, gK, gBody>>

ReadNoNewline ==
    /\ gFile # None /\ gStart > 0
    /\ Read(NoNewlineLine)
    /\ UNCHANGED <<gFile, gStart, gOld, gNew, gK, gBody>>

ReadHeaderLine ==
    \E f \in Files : \E l \in HeaderLines(f) :
        /\ ~InBody
        /\ Read(l)
        /\ UNCHANGED <<gFile, gStart, gOld, gNew, gK, gBody>>

IndexInit == IndexIdle /\ FilterIdle /\ ValidateIdle /\ SuppressIdle /\ AuxIdle

IndexNext ==
    \/ ReadFileHeader
    \/ ReadHunkHeader
    \/ ReadAdded
    \/ ReadContext
    \/ ReadRemoved
    \/ ReadNoNewline
    \/ ReadHeaderLine

SpecIndex == IndexInit /\ [][IndexNext]_vars

-----------------------------------------------------------------------------
(* The diffs and requested paths of filter_diff_for_files *)

\* bounds of the diffs filtered
MaxDiffFiles == 3
MaxRequests == 2

Path_M == <<"M">>
Path_aM == <<"a", "/", "M">>
Path_bM == <<"b", "/", "M">>
Path_waM == <<"w", "/", "a", "/", "M">>
Path_axM == <<"a", "/", "x", "M">>
Path_qaM == <<"q", "/", "a", "/", "M">>
Path_N == <<"N">>
DiffPaths == {Path_aM, Path_bM, Path_waM, Path_axM}
RequestPaths == {Path_M, Path_aM, Path_qaM, Path_N}

\* the section of a diff for file p: its headers and a hunk that adds one
\* line, p itself
SectionOf(p) ==
    << DiffGitPrefix \o <<"a", "/">> \o p \o <<" ", "b", "/">> \o p,
       <<"-", "-", "-", " ", "a", "/">> \o p,
       FileHeaderPrefix \o p,
       HunkHeaderLine(0, 1, 1, FALSE),
       <<"+">> \o p >>

\* a file is added to the diff that will be filtered
WriteSection ==
    \E p \in DiffPaths :
        /\ filter_pc = "diff"
        /\ p \notin DOMAIN gSections
        /\ Cardinality(DOMAIN gSections) < MaxDiffFiles
        /\ full_diff' = full_diff \o SectionOf(p)
        /\ gSections' = SetKey(gSections, p, SectionOf(p))
        /\ UNCHANGED <<file_paths, parsed, filtered_sections, matched_paths, filter_pc>>
        /\ UNCHANGED <<idxVars, valVars, supVars, auxVars>>

\* filter_diff_for_files up to its loop
FilterBegin ==
    /\ filter_pc = "diff"
    /\ full_diff # <<>>
    /\ parsed' = parse_diff(_normalize_diff(full_diff))
    /\ filter_pc' = "loop"
    /\ UNCHANGED <<full_diff, file_paths, filtered_sections, matched_paths, gSections>>
    /\ UNCHANGED <<idxVars, valVars, supVars, auxVars>>

\* one pass of `for file_path in file_paths`
FilterPath ==
    \E file_path \in RequestPaths :
        LET matched_diff_path == MatchedDiffPath(file_path, parsed)
        IN  /\ filter_pc = "loop"
            /\ Len(file_paths) < MaxRequests
            /\ file_paths' = Append(file_paths, file_path)
            /\ matched_paths' = Append(matched_paths, matched_diff_path)
            /\ filtered_sections' =
                  IF Truthy(matched_diff_path)
                  THEN Append(filtered_sections, parsed[matched_diff_path])
                  ELSE filtered_sections
            /\ UNCHANGED <<full_diff, parsed, filter_pc, gSections>>
            /\ UNCHANGED <<idxVars, valVars, supVars, auxVars>>

FilterInit ==
    /\ IndexIdle
    /\ ValidateIdle
    /\ SuppressIdle
    /\ AuxIdle
    /\ full_diff = <<>>
    /\ file_paths = <<>>
    /\ parsed = <<>>
    /\ filtered_sections = <<>>
    /\ matched_paths = <<>>
    /\ filter_pc = "diff"
    /\ gSections = <<>>

FilterNext == WriteSection \/ FilterBegin \/ FilterPath

SpecFilter == FilterInit /\ [][FilterNext]_vars

-----------------------------------------------------------------------------
(* The batches validated: PRReviewer.review_pr_diff takes the commentable   *)
(* lines from the batch diff and passes both to validate_issues_in_batch;   *)
(* other callers pass no diff text.                                         *)

\* bound of the issues of one call
MaxIssues == 2

\* the length of the longest title
MaxTitle == 61

File_A == <<"a", ".", "k", "t">>
File_B == <<"w", "e", "b", "/", "b", ".", "d", "a", "r", "t">>
File_Z == <<"z", ".", "k", "t">>

\* a.kt: lines 10 to 14 and line 21 are commentable
Section_A ==
    << <<"d", "i", "f", "f", " ", "-", "-", "g", "i", "t", " ", "a", "/", "a", ".", "k", "t", " ", "b", "/", "a", ".", "k", "t">>, <<"-", "-", "-", " ", "a", "/", "a", ".", "k", "t">>, <<"+", "+", "+", " ", "b", "/", "a", ".", "k", "t">>,
       <<"@", "@", " ", "-", "1", "0", ",", "2", " ", "+", "1", "0", ",", "5", " ", "@", "@">>,
       <<" ", "R", "o", "w", " ", "{">>, <<"+", " ", " ", "B", "u", "t", "t", "o", "n", "(">>, <<"+", " ", " ", ".", "c", "l", "i", "c", "k", "a", "b", "l", "e", " ", "{">>, <<" ", "}">>, <<"+", "}">>,
       <<"@", "@", " ", "-", "2", "0", ",", "0", " ", "+", "2", "1", ",", "1", " ", "@", "@">>,
       <<"+", "B", "u", "t", "t", "o", "n", "(">> >>

\* web/b.dart: lines 1 and 2 are commentable
Section_B ==
    << <<"d", "i", "f", "f", " ", "-", "-", "g", "i", "t", " ", "a", "/", "w", "e", "b", "/", "b", ".", "d", "a", "r", "t", " ", "b", "/", "w", "e", "b", "/", "b", ".", "d", "a", "r", "t">>, <<"-", "-", "-", " ", "a", "/", "w", "e", "b", "/", "b", ".", "d", "a", "r", "t">>, <<"+", "+", "+", " ", "b", "/", "w", "e", "b", "/", "b", ".", "d", "a", "r", "t">>,
       <<"@", "@", " ", "-", "0", ",", "0", " ", "+", "1", ",", "2", " ", "@", "@">>,
       <<"+", "T", "e", "x", "t", "(", "\"", "a", "\"", ")">>, <<"+", "B", "u", "t", "t", "o", "n", "(">> >>

\* the file batches and their diffs (web/b.dart may have no section)
Batch_AB == [files |-> <<File_A, File_B>>, diff |-> Section_A \o Section_B]

Batches ==
    { [files |-> <<File_A>>, diff |-> Section_A],
      Batch_AB,
      [files |-> <<File_B, File_A>>, diff |-> Section_A] }

\* the calls: each batch with its diff, and the batch of both files also
\* without the diff text; DEBUG_WEB_REVIEW is set or not
ValidateCalls ==
    {[batch |-> b, with_diff |-> TRUE, debug |-> TRUE] : b \in Batches}
    \cup {[batch |-> Batch_AB, with_diff |-> w, debug |-> d] : w, d \in BOOLEAN}

Title_Contrast == <<"L", "o", "w", " ", "c", "o", "n", "t", "r", "a", "s", "t">>
Title_Button == <<"B", "u", "t", "t", "o", "n", " ", "b", "a", "d">>
Anchor_Button == <<"B", "u", "t", "t", "o", "n", "(">>
Anchor_Clickable == <<".", "c", "l", "i", "c", "k", "a", "b", "l", "e">>
Anchor_Absent == <<"S", "l", "i", "d", "e", "r", "(">>
Anchor_Style == <<".", "s", "t", "y", "l", "e", "(">>
Title_Long == [i \in 1..MaxTitle |-> IF i <= 60 THEN "x" ELSE "y"]
Code_Button == <<"B", "u", "t", "t", "o", "n", "(", "o", "n", "C", "l", "i", "c", "k", " ", "=", " ", "{", "}", ",", " ", "m", "o", "d", "i", "f", "i", "e", "r", " ", "=", " ", "M", "o", "d", "i", "f", "i", "e", "r", ".", "c", "l", "i", "c", "k", "a", "b", "l", "e", " ", "{", " ", "}", ")">>

NewIssue(file, line, title, anchor_text, current_code) ==
    [file |-> file, line |-> line, title |-> title, anchor_text |-> anchor_text,
     current_code |-> current_code, _anchor_matched_text |-> None]

\* the issues a model reply may hold: on a.kt at line 0, at the commentable
\* line 12, just before the first hunk (9), between the hunks (16), 9 lines
\* after the last one (30) and further (40); on web/b.dart; on a file of no
\* batch; without a file and a line
IssueInputs ==
    {NewIssue(File_A, 0, Title_Contrast, None, None)}
    \cup {NewIssue(File_A, 12, Title_Contrast, a, None) : a \in {None, Anchor_Button}}
    \cup {NewIssue(File_A, 9, Title_Contrast, a, None) :
            a \in {None, Anchor_Button, Anchor_Clickable, Anchor_Absent, Anchor_Style}}
    \cup {NewIssue(File_A, 9, Title_Contrast, Anchor_Clickable, Code_Button)}
    \cup {NewIssue(File_A, 16, Title_Contrast, Anchor_Button, None)}
    \cup {NewIssue(File_A, l, Title_Contrast, Anchor_Absent, None) : l \in {30, 40}}
    \cup {NewIssue(File_A, 40, Title_Contrast, Anchor_Button, None)}
    \cup {NewIssue(File_B, 0, Title_Long, None, None),
          NewIssue(File_B, 20, Title_Contrast, None, None),
          NewIssue(<<>>, 0, Title_Contrast, None, None)}
    \cup {NewIssue(File_B, 2, Title_Contrast, None, None),
          NewIssue(File_B, 5, Title_Contrast, None, None),
          NewIssue(File_B, 5, Title_Button, None, None)}
    \cup {NewIssue(File_Z, 10, Title_Button, None, None)}

\* validate_issues_in_batch is entered with the files and the diff of a
\* batch and the commentable lines lines_of, and extracts the line texts
EnterValidate(files, diff, lines_of, debug) ==
    /\ validate_pc = "args"
    /\ debug_web_review' = debug
    /\ drop_reasons' = <<>>
    /\ batch_files' = files
    /\ diff_text' = diff
    /\ commentable_lines' = lines_of
    /\ line_texts' = IF HasText(diff)
                     THEN extract_commentable_line_texts(diff, lines_of)
                     ELSE <<>>
    /\ validate_pc' = "loop"
    /\ UNCHANGED <<issues, validated, dropped, validated_at, issues_now>>
    /\ UNCHANGED <<idxVars, fltVars, supVars, auxVars>>

\* review_pr_diff takes the commentable lines from the batch diff and calls
\* validate_issues_in_batch; other callers pass no diff text
ValidateBegin ==
    \E c \in ValidateCalls :
        EnterValidate(c.batch.files, IF c.with_diff THEN c.batch.diff ELSE None,
                      extract_commentable_lines(c.batch.diff), c.debug)

\* the end of one pass of `for issue in issues`, r being what was decided
EndPass(issue, r) ==
    /\ issues' = Append(issues, issue)
    /\ validated' = IF r.kept THEN Append(validated, r.issue) ELSE validated
    /\ dropped' = IF r.kept THEN dropped ELSE Append(dropped, r.reason_code)
    /\ validated_at' = Append(validated_at, IF r.kept THEN Len(validated) + 1 ELSE 0)
    /\ drop_reasons' = drop_reasons \o drop_reason_events(issue, r, debug_web_review)
    /\ issues_now' = Append(issues_now, r.issue)
    /\ UNCHANGED <<batch_files, diff_text, commentable_lines, line_texts, validate_pc,
                   debug_web_review>>
    /\ UNCHANGED <<idxVars, fltVars, supVars, auxVars>>

\* one pass of `for issue in issues`
ValidateIssue ==
    \E issue \in IssueInputs :
        /\ validate_pc = "loop"
        /\ Len(issues) < MaxIssues
        /\ EndPass(issue, validate_issue(issue, batch_files, commentable_lines,
                                         diff_text, line_texts))

ValidateInit ==
    /\ IndexIdle
    /\ FilterIdle
    /\ SuppressIdle
    /\ AuxIdle
    /\ batch_files = <<>>
    /\ diff_text = None
    /\ commentable_lines = <<>>
    /\ line_texts = <<>>
    /\ issues = <<>>
    /\ validated = <<>>
    /\ dropped = <<>>
    /\ debug_web_review = FALSE
    /\ drop_reasons = <<>>
    /\ issues_now = <<>>
    /\ validated_at = <<>>
    /\ validate_pc = "args"

ValidateNext == ValidateBegin \/ ValidateIssue

SpecValidate == ValidateInit /\ [][ValidateNext]_vars

-----------------------------------------------------------------------------
(* The proximity suppression of post_batch_comments: the comments found on  *)
(* the pull request and the issues of the batches posted                    *)

\* the number of comments found on the pull request, and of issues posted
MaxExisting == 2
MaxPosted == 2

Snippet_Button == <<"B", "u", "t", "t", "o", "n", " ", "m", "i", "s", "s", "i", "n", "g", " ", "l", "a", "b", "e", "l">>
Snippet_TextField == <<"T", "e", "x", "t", "F", "i", "e", "l", "d", " ", "m", "i", "s", "s", "i", "n", "g", " ", "h", "i", "n", "t">>
Snippet_Slider == <<"S", "l", "i", "d", "e", "r", "(", " ", "n", "e", "e", "d", "s", " ", "a", " ", "l", "a", "b", "e", "l">>
Snippet_Image == <<"I", "m", "a", "g", "e", " ", "i", "s", " ", "m", "i", "s", "s", "i", "n", "g", " ", "a", " ", "c", "o", "n", "t", "e", "n", "t", " ", "d", "e", "s", "c", "r", "i", "p", "t", "i", "o", "n", " ", "t", "e", "x", "t">>
Title_Image == <<"I", "m", "a", "g", "e", " ", "i", "s", " ", "m", "i", "s", "s", "i", "n", "g", " ", "a", " ", "c", "o", "n", "t", "e", "n", "t", " ", "d", "e", "s", "c", "r", "i", "p", "t", "i", "o", "n", " ", "l", "a", "b", "e", "l">>
Title_ButtonSpaced == <<" ", " ", "B", "U", "T", "T", "O", "N", " ", "m", "i", "s", "s", "i", "n", "g", " ", "l", "a", "b", "e", "l", " ">>
Title_Buttons == <<"B", "u", "t", "t", "o", "n", " ", "m", "i", "s", "s", "i", "n", "g", " ", "l", "a", "b", "e", "l", "s">>
Title_ImageRole == <<"I", "m", "a", "g", "e", " ", "i", "s", " ", "m", "i", "s", "s", "i", "n", "g", " ", "a", " ", "c", "o", "n", "t", "e", "n", "t", " ", "l", "a", "b", "e", "l", " ", "f", "o", "r", " ", "t", "h", "e", " ", "b", "u", "t", "t", "o", "n">>
Title_Other == <<"O", "t", "h", "e", "r">>
Anchor_Slider == <<"S", "l", "i", "d", "e", "r", "(">>
Anchor_SliderValue == <<"s", "l", "i", "d", "e", "r", ".", "v", "a", "l", "u", "e">>
Anchor_Short == <<"S", "(">>

\* the comments a pull request may hold, as _get_existing_comment_locations
\* returns them, and a location added by an earlier batch
ExistingEntries ==
    { <<File_A, 460, Snippet_Button>>,
      <<File_A, 466, Snippet_TextField>>,
      <<File_A, 462, Snippet_Slider>>,
      <<File_A, 458, Snippet_Image>>,
      <<File_A, 461, <<>>>>,
      <<File_B, 460, Snippet_Button>>,
      <<File_A, 470>> }

SuppressIssue(file, line, title, anchor_text, matched_text) ==
    [NewIssue(file, line, title, anchor_text, None)
        EXCEPT !._anchor_matched_text = matched_text]

\* the issues a batch may hold
SuppressInputs ==
    { SuppressIssue(File_A, 462, Snippet_Button, None, None),
      SuppressIssue(File_A, 465, Snippet_Button, None, None),
      SuppressIssue(File_A, 466, Snippet_Button, None, None),
      SuppressIssue(File_A, 465, Snippet_TextField, Anchor_Short, None),
      SuppressIssue(File_B, 462, Snippet_Button, None, None),
      SuppressIssue(File_A, 463, Title_ButtonSpaced, Anchor_Slider, None),
      SuppressIssue(File_A, 463, <<>>, None, None),
      SuppressIssue(File_A, 464, Title_Other, Anchor_Absent, Anchor_Slider),
      SuppressIssue(File_A, 464, Title_Other, Anchor_SliderValue, None),
      SuppressIssue(File_A, 459, Title_Image, None, None),
      SuppressIssue(File_A, 461, Title_Buttons, None, None),
      SuppressIssue(File_A, 457, Title_ImageRole, None, None) }

\* existing_locations is fetched and posted_locations = set(existing_locations)
SuppressBegin ==
    \E existing \in SUBSET ExistingEntries :
        /\ suppress_pc = "fetch"
        /\ Cardinality(existing) <= MaxExisting
        /\ posted_locations' = existing
        /\ suppress_pc' = "post"
        /\ UNCHANGED <<new_issues, near_calls>>
        /\ UNCHANGED <<idxVars, fltVars, valVars, auxVars>>

\* a pass of `for issue in issues` that goes as far as the call
NearCall(issue, result) ==
    /\ near_calls' = Append(near_calls, [issue |-> issue, posted |-> posted_locations,
                                         result |-> result])
    /\ IF result.should_skip
       THEN UNCHANGED <<posted_locations, new_issues>>
       ELSE /\ new_issues' = Append(new_issues, issue)
            /\ posted_locations' = posted_locations \cup {<<issue.file, issue.line>>}

\* one pass of `for issue in issues` in post_batch_comments
PostIssue ==
    \E issue \in SuppressInputs :
        /\ suppress_pc = "post"
        /\ Len(near_calls) < MaxPosted
        /\ IF <<issue.file, issue.line>> \in posted_locations
           THEN UNCHANGED <<posted_locations, new_issues, near_calls>>
           ELSE \E result \in is_near_existing_comment(issue.file, issue.line, issue,
                                                       RangeThreshold, posted_locations) :
                    NearCall(issue, result)
        /\ UNCHANGED suppress_pc
        /\ UNCHANGED <<idxVars, fltVars, valVars, auxVars>>

SuppressInit ==
    /\ IndexIdle
    /\ FilterIdle
    /\ ValidateIdle
    /\ AuxIdle
    /\ posted_locations = {}
    /\ new_issues = <<>>
    /\ near_calls = <<>>
    /\ suppress_pc = "fetch"

SuppressNext == SuppressBegin \/ PostIssue

SpecSuppress == SuppressInit /\ [][SuppressNext]_vars

-----------------------------------------------------------------------------
(* Claims about the commentable-line index *)

\* the diff read so far ends where a hunk ends
CompleteDiff == ~raised /\ gOld = 0 /\ gNew = 0

\* C2: for a diff whose hunk headers are valid, the number of commentable
\* entries recorded for a file equals the number of its hunk body lines that
\* begin with '+' or with a space; no such body line is left out.
C2_CountEqualsBodyLines ==
    CompleteDiff =>
        \A f \in DOMAIN gBody :
            /\ f \in DOMAIN commentable
            /\ Len(commentable[f]) = Len(gBody[f])

\* C3: in a hunk that starts at new-file line S, the k-th Added or Context
\* body line is recorded with line number S + k, whatever Removed lines lie
\* between them.
C3_BodyLineRecordedAtStartPlusK ==
    ~raised =>
        \A f \in DOMAIN gBody : \A i \in 1..Len(gBody[f]) :
            /\ f \in DOMAIN commentable
            /\ i <= Len(commentable[f])
            /\ commentable[f][i] = gBody[f][i]

-----------------------------------------------------------------------------
(* Claims about filter_diff_for_files *)

\* the requested paths looped over so far
Requests == 1..Len(file_paths)

\* the section filter_diff_for_files has returned for the i-th requested path
SectionFor(i) ==
    filtered_sections[Cardinality({j \in 1..i : Truthy(matched_paths[j])})]

\* p is q preceded by one or more whole directory components
IsPathSuffixOf(p, q) == EndsWith(q, <<"/">> \o p)
SuffixCandidates(r) ==
    {dp \in DOMAIN gSections : IsPathSuffixOf(dp, r) \/ IsPathSuffixOf(r, dp)}
BasenameCandidates(r) ==
    {dp \in DOMAIN gSections : Basename(dp) = Basename(r)}

\* C5: for a requested path without an exact match a section is returned
\* only when the candidate is unique: exactly one diff path is in a suffix
\* relation with it, or none is and exactly one has its basename; with more
\* than one candidate nothing is returned.
C5_ReturnsOnlyUniqueCandidate ==
    \A i \in Requests :
        LET r == file_paths[i]
            m == matched_paths[i]
        IN  r \notin DOMAIN gSections =>
                /\ Truthy(m) =>
                     \/ SuffixCandidates(r) = {m}
                     \/ SuffixCandidates(r) = {} /\ BasenameCandidates(r) = {m}
                /\ Cardinality(SuffixCandidates(r)) > 1 => m = None
                /\ (SuffixCandidates(r) = {} /\ Cardinality(BasenameCandidates(r)) > 1)
                     => m = None

\* C6: a requested path equal to the destination path of a section of the
\* diff gets that section and no other, whatever other diff paths are
\* suffix- or basename-related to it.
C6_ExactMatchReturnsItsSection ==
    \A i \in Requests :
        file_paths[i] \in DOMAIN gSections =>
            /\ matched_paths[i] = file_paths[i]
            /\ SectionFor(i) = gSections[file_paths[i]]

\* an exact match was returned while another diff path is suffix-related
C6_Witness ==
    \E i \in Requests :
        /\ file_paths[i] \in DOMAIN gSections
        /\ SuffixCandidates(file_paths[i]) # {}
        /\ Cardinality(BasenameCandidates(file_paths[i])) > 2
        /\ SectionFor(i) = gSections[file_paths[i]]

-----------------------------------------------------------------------------
(* SemanticAnchorResolver.extract_call_site_token, which diff_parser.py     *)
(* calls and the tests describe: the first identifier of the code snippet   *)
(* that is a known UI constructor and is immediately followed by '('.       *)

CallSiteNames ==
    { <<"S", "l", "i", "d", "e", "r">>, <<"S", "w", "i", "t", "c", "h">>, <<"B", "u", "t", "t", "o", "n">>, <<"T", "e", "x", "t">>, <<"T", "e", "x", "t", "F", "i", "e", "l", "d">>, <<"O", "u", "t", "l", "i", "n", "e", "d", "T", "e", "x", "t", "F", "i", "e", "l", "d">>,
      <<"I", "c", "o", "n">>, <<"T", "o", "g", "g", "l", "e">>, <<"S", "e", "c", "u", "r", "e", "F", "i", "e", "l", "d">>, <<"U", "I", "B", "u", "t", "t", "o", "n">>, <<"U", "I", "L", "a", "b", "e", "l">>, <<"U", "I", "I", "m", "a", "g", "e", "V", "i", "e", "w">>,
      <<"U", "I", "T", "e", "x", "t", "F", "i", "e", "l", "d">>, <<"U", "I", "S", "w", "i", "t", "c", "h">>, <<"U", "I", "S", "l", "i", "d", "e", "r">> }

RECURSIVE CallSiteFrom(_, _)
CallSiteFrom(code, i) ==
    IF i > Len(code) THEN None
    ELSE IF ~IsWordChar(code[i]) THEN CallSiteFrom(code, i + 1)
    ELSE IF /\ SubSeq(code, i, WordEnd(code, i) - 1) \in CallSiteNames
            /\ WordEnd(code, i) <= Len(code)
            /\ code[WordEnd(code, i)] = "("
    THEN SubSeq(code, i, WordEnd(code, i))
    ELSE CallSiteFrom(code, WordEnd(code, i))

extract_call_site_token(current_code) ==
    IF current_code = None THEN None ELSE CallSiteFrom(current_code, 1)

-----------------------------------------------------------------------------
(* Claims about validate_issues_in_batch *)

\* the issues looped over so far
Passed == 1..Len(issues)

\* the i-th issue passes the three drop checks
PassesDropChecks(i) ==
    /\ InList(issues[i].file, batch_files)
    /\ issues[i].line > 0
    /\ issues[i].file \in DOMAIN commentable_lines
    /\ commentable_lines[issues[i].file] # <<>>

IsCommentable(file, line) ==
    file \in DOMAIN commentable_lines /\ InList(line, commentable_lines[file])

\* the lines of the file of the i-th issue whose text holds the string s
LinesHolding(i, s) ==
    IF issues[i].file \in DOMAIN line_texts
    THEN {line_texts[issues[i].file][k].line :
            k \in {k \in 1..Len(line_texts[issues[i].file]) :
                     Contains(line_texts[issues[i].file][k].text, s)}}
    ELSE {}

\* the text recorded for a line of the file of the i-th issue
TextOfLine(i, line) ==
    LET texts == line_texts[issues[i].file]
    IN  texts[CHOOSE k \in 1..Len(texts) : texts[k].line = line].text

\* what anchor resolution yields for the i-th issue as it was passed
Resolution(i) ==
    IF HasText(diff_text) /\ issues[i].file \in DOMAIN line_texts
    THEN resolve_anchor_line(issues[i], line_texts[issues[i].file], issues[i].line,
                             PathSuffix(issues[i].file))
    ELSE [line |-> NoLine, text |-> None]

\* the i-th issue as validate_issues_in_batch returns it
Returned(i) == validated[validated_at[i]]

\* C1: every issue returned by validate_issues_in_batch names a file of the
\* batch, has a line greater than 0, and that line is a commentable line
\* recorded for the file, whether the line was kept, rewritten by anchor
\* resolution or moved by the nearest-commentable fallback.
C1_ReturnedInBatchOnCommentableLine ==
    \A k \in 1..Len(validated) :
        /\ InList(validated[k].file, batch_files)
        /\ validated[k].line > 0
        /\ IsCommentable(validated[k].file, validated[k].line)

\* one returned issue was rewritten to the line of its anchor and another
\* was moved to the nearest commentable line
C1_Witness ==
    \E i, j \in Passed :
        /\ validated_at[i] > 0 /\ validated_at[j] > 0
        /\ Returned(i).line # issues[i].line
        /\ Returned(i)._anchor_matched_text # None
        /\ Returned(j).line # issues[j].line
        /\ Returned(j)._anchor_matched_text = None
        /\ ~IsCommentable(issues[j].file, issues[j].line)

\* C4: when the explicit anchor matches a modifier line and the call-site
\* token of the code snippet matches a commentable line too, anchor
\* resolution returns a line of the call-site token.
C4_CallSiteTokenLineReturned ==
    \A i \in Passed :
        LET token == extract_call_site_token(issues[i].current_code)
        IN  (/\ PassesDropChecks(i)
             /\ ~IsCommentable(issues[i].file, issues[i].line)
             /\ HasText(diff_text)
             /\ Truthy(issues[i].anchor_text)
             /\ token # None
             /\ LinesHolding(i, token) # {}
             /\ Resolution(i).line \notin LinesHolding(i, token) \cup {NoLine})
            => /\ validated_at[i] > 0
               /\ Returned(i).line \in LinesHolding(i, token)

\* C9 as stated: an issue that passes the drop checks on a line that is
\* already commentable still goes through anchor resolution; its line is
\* rewritten when resolution yields a different line and kept otherwise.
C9_CommentableLineStillResolved ==
    \A i \in Passed :
        (PassesDropChecks(i) /\ IsCommentable(issues[i].file, issues[i].line))
            => /\ validated_at[i] > 0
               /\ Returned(i).line =
                     IF Resolution(i).line \notin {NoLine, 0, issues[i].line}
                     THEN Resolution(i).line
                     ELSE issues[i].line

\* C9 amended: an issue that passes the drop checks on a line that is already
\* commentable is returned as it was passed, without anchor resolution: its
\* line is kept and no matched text is stored, also when its anchor matches
\* another commentable line.
C9_CommentableLineKeptUnresolved ==
    \A i \in Passed :
        (PassesDropChecks(i) /\ IsCommentable(issues[i].file, issues[i].line))
            => /\ validated_at[i] > 0
               /\ Returned(i) = issues[i]

\* an issue on a commentable line whose anchor resolves to another line was
\* returned on its own line
C9_Witness ==
    \E i \in Passed :
        /\ PassesDropChecks(i)
        /\ IsCommentable(issues[i].file, issues[i].line)
        /\ Resolution(i).line \notin {NoLine, 0, issues[i].line}
        /\ validated_at[i] > 0
        /\ Returned(i).line = issues[i].line

\* the i-th issue was returned on the resolved line, with the stripped text
\* of that line stored and nothing else changed
StoredAsResolved(i, resolved) ==
    resolved.line # NoLine
        => /\ validated_at[i] > 0
           /\ IsCommentable(issues[i].file, resolved.line)
           /\ Returned(i) =
                 [issues[i] EXCEPT
                    !.line = resolved.line,
                    !._anchor_matched_text =
                        Strip(TextOfLine(i, resolved.line))]

\* the issue of the pass that ended last; every pass of the loop ends in a
\* state of its own, in which its issue is this one
LastPassed == IF issues = <<>> THEN {} ELSE {Len(issues)}

\* C10: an issue that passes the drop checks on a line that is not
\* commentable, for which anchor resolution finds a commentable line, is
\* returned with that line and with the stripped text of that line stored,
\* and is otherwise unchanged (stated of the pass that ended last, in every
\* state).
C10_ResolvedLineAndTextStored ==
    \A i \in LastPassed :
        (PassesDropChecks(i) /\ ~IsCommentable(issues[i].file, issues[i].line))
            => StoredAsResolved(i, Resolution(i))

\* the issue at line 9, before the hunk of lines 10 to 14, whose anchor
\* `Button(` is on line 11, was returned at line 11 with that line's text
C10_Witness ==
    \E i \in Passed :
        /\ issues[i].file = File_A
        /\ issues[i].line = 9
        /\ issues[i].anchor_text = Anchor_Button
        /\ SubSeq(commentable_lines[File_A], 1, 5) = <<10, 11, 12, 13, 14>>
        /\ validated_at[i] > 0
        /\ Returned(i).line = 11
        /\ Returned(i)._anchor_matched_text = Anchor_Button

-----------------------------------------------------------------------------
(* Claims about is_near_existing_comment *)

Calls == {near_calls[k] : k \in 1..Len(near_calls)}

\* the call made last, every call being the last one in the state it is made in
LastCall == {near_calls[k] : k \in {Len(near_calls)} \ {0}}

\* the record is on the file of the issue, at most the radius away from it
NearRecord(entry, issue) ==
    /\ entry[1] = issue.file
    /\ entry[2] - issue.line <= RangeThreshold
    /\ issue.line - entry[2] <= RangeThreshold

\* the record is judged the same issue as the issue, by title or by anchor
\* signature
JudgedSame(entry, issue) ==
    \/ TitleMatch(NormalizeTitle(issue.title), NormalizeTitle(EntrySnippet(entry))) # ""
    \/ AnchorMatch(IssueAnchor(issue), EntrySnippet(entry)) # ""

\* the snippet of the record equals the title of the issue after normalization
EqualTitle(entry, issue) ==
    NormalizeTitle(EntrySnippet(entry)) = NormalizeTitle(issue.title)

\* the issue carries no identity data
NoIdentity(issue) == NormalizeTitle(issue.title) = <<>> /\ IssueAnchor(issue) = <<>>

\* the matched record returned by the call is the record
MatchedIs(call, entry) ==
    /\ call.result.matched_entry.file = entry[1]
    /\ call.result.matched_entry.line = entry[2]
    /\ call.result.matched_entry.snippet = TakeFirst(EntrySnippet(entry), 100)

\* C7: is_near_existing_comment reports suppression only if some existing
\* record is on the same file, within the radius and judged the same issue
\* by title or anchor signature; a record that is only near, or an issue
\* without identity data, never causes suppression.
C7_SuppressedOnlyForSameIssueNearby ==
    \A call \in LastCall :
        /\ call.result.should_skip
              => \E entry \in call.posted :
                    /\ NearRecord(entry, call.issue)
                    /\ JudgedSame(entry, call.issue)
                    /\ MatchedIs(call, entry)
        /\ NoIdentity(call.issue) => ~call.result.should_skip

\* one issue with the record of another issue nearby was not suppressed,
\* and one issue was suppressed
C7_Witness ==
    /\ \E call \in Calls :
          /\ ~call.result.should_skip
          /\ ~NoIdentity(call.issue)
          /\ \E entry \in call.posted :
                NearRecord(entry, call.issue) /\ EntrySnippet(entry) # <<>>
    /\ \E call \in Calls : call.result.should_skip

\* an issue without identity data was passed with a record nearby
C7_NoIdentityWitness ==
    \E call \in Calls :
        /\ NoIdentity(call.issue)
        /\ \E entry \in call.posted : NearRecord(entry, call.issue)

\* C8 as stated: an issue is suppressed whenever an existing record on the
\* same file lies at most the radius away and its snippet equals the title
\* of the issue after normalization, and the matched record returned is such
\* a record; no issue is suppressed without a record within the radius on
\* its file.
C8_EqualTitleNearbySuppressed ==
    \A call \in Calls :
        /\ (\E entry \in call.posted :
                NearRecord(entry, call.issue) /\ EqualTitle(entry, call.issue))
              => /\ call.result.should_skip
                 /\ \E entry \in call.posted :
                       /\ NearRecord(entry, call.issue)
                       /\ EqualTitle(entry, call.issue)
                       /\ MatchedIs(call, entry)
        /\ call.result.should_skip
              => \E entry \in call.posted : NearRecord(entry, call.issue)

\* C8 amended: an issue whose normalized title is not empty is suppressed
\* whenever an existing record on the same file lies at most the radius away
\* (the boundary distance included) and its snippet equals the title after
\* normalization; the matched record returned is a record on the file within
\* the radius that is judged the same issue, by title or by anchor
\* signature; no issue is suppressed without a record within the radius on
\* its file.
C8_NonEmptyEqualTitleNearbySuppressed ==
    \A call \in LastCall :
        /\ (/\ NormalizeTitle(call.issue.title) # <<>>
            /\ \E entry \in call.posted :
                  NearRecord(entry, call.issue) /\ EqualTitle(entry, call.issue))
              => /\ call.result.should_skip
                 /\ \E entry \in call.posted :
                       /\ NearRecord(entry, call.issue)
                       /\ JudgedSame(entry, call.issue)
                       /\ MatchedIs(call, entry)
        /\ call.result.should_skip
              => \E entry \in call.posted : NearRecord(entry, call.issue)

\* an issue was suppressed by the record of its title at the boundary
\* distance, and an issue with a record of its title nearby was suppressed
\* with a matched record of another title
C8_Witness ==
    /\ \E call \in Calls :
          /\ call.result.should_skip
          /\ call.result.matched_entry.distance = RangeThreshold
          /\ NormalizeTitle(call.result.matched_entry.snippet)
                = NormalizeTitle(call.issue.title)
    /\ \E call \in Calls :
          /\ call.result.should_skip
          /\ \E entry \in call.posted :
                NearRecord(entry, call.issue) /\ EqualTitle(entry, call.issue)
          /\ NormalizeTitle(call.result.matched_entry.snippet)
                # NormalizeTitle(call.issue.title)

-----------------------------------------------------------------------------
(* Claims about the fallback and the drops of validate_issues_in_batch *)

\* the reason code printed for the i-th issue, which was dropped
DropReason(i) == dropped[Cardinality({k \in 1..i : validated_at[k] = 0})][1]

\* an anchor search was attempted for the i-th issue
SearchAttempted(i) == HasText(diff_text) /\ issues[i].file \in DOMAIN line_texts

\* the commentable lines of the file of the i-th issue at most the bound away
\* from its proposed line
WithinBound(i) ==
    {commentable_lines[issues[i].file][k] :
        k \in {k \in 1..Len(commentable_lines[issues[i].file]) :
                 /\ commentable_lines[issues[i].file][k] - issues[i].line <= MaxDistance
                 /\ issues[i].line - commentable_lines[issues[i].file][k] <= MaxDistance}}

\* the i-th issue, for which no anchor was resolved, was kept at a nearest
\* line of the candidates, or dropped when there is none
FellBack(i, resolved, candidates) ==
    resolved.line = NoLine
        => IF candidates # {}
           THEN /\ validated_at[i] > 0
                /\ Returned(i).line \in candidates
                /\ \A l \in candidates :
                      Abs(Returned(i).line - issues[i].line) <= Abs(l - issues[i].line)
                /\ Returned(i) = [issues[i] EXCEPT !.line = Returned(i).line]
           ELSE /\ validated_at[i] = 0
                /\ DropReason(i) \in
                      IF SearchAttempted(i)
                      THEN {"anchor_not_found", "nearest_commentable_none"}
                      ELSE {"line_not_commentable"}

\* C11: when the proposed line is not commentable and anchor resolution
\* fails, the issue is kept at the nearest commentable line within the
\* distance bound; when no commentable line lies within the bound it is
\* dropped, with reason anchor_not_found or nearest_commentable_none when a
\* search was attempted and line_not_commentable when none was (stated of
\* the pass that ended last, in every state).
C11_NearestFallbackOrDrop ==
    \A i \in LastPassed :
        (PassesDropChecks(i) /\ ~IsCommentable(issues[i].file, issues[i].line))
            => FellBack(i, Resolution(i), WithinBound(i))

\* after a failed search one issue was kept at the nearest line and another
\* was dropped
C11_Witness ==
    \E i, j \in Passed :
        /\ PassesDropChecks(i) /\ SearchAttempted(i)
        /\ ~IsCommentable(issues[i].file, issues[i].line)
        /\ validated_at[i] > 0
        /\ Returned(i)._anchor_matched_text = None
        /\ Returned(i).line # issues[i].line
        /\ PassesDropChecks(j) /\ SearchAttempted(j)
        /\ validated_at[j] = 0
        /\ DropReason(j) = "nearest_commentable_none"

\* without a search one issue was kept at the nearest line and another was
\* dropped
C11_NoSearchWitness ==
    \E i, j \in Passed :
        /\ PassesDropChecks(i) /\ ~SearchAttempted(i)
        /\ validated_at[i] > 0
        /\ Returned(i).line # issues[i].line
        /\ validated_at[j] = 0
        /\ DropReason(j) = "line_not_commentable"

\* the i-th issue was dropped with the reason
DroppedFor(i, reason) == validated_at[i] = 0 /\ DropReason(i) = reason

\* C12: an issue is dropped with file_not_in_batch if its file is not in the
\* batch file list, otherwise with invalid_line_number if its line is at
\* most 0, otherwise with no_commentable_lines_for_file if its file has no
\* commentable lines; an issue without a file or a line is dropped by these
\* checks, and every issue passed after a drop is still decided.
C12_DropReasonsInOrder ==
    /\ \A i \in Passed :
          IF ~InList(issues[i].file, batch_files)
          THEN DroppedFor(i, "file_not_in_batch")
          ELSE IF issues[i].line <= 0
          THEN DroppedFor(i, "invalid_line_number")
          ELSE IF issues[i].file \notin DOMAIN commentable_lines
                  \/ commentable_lines[issues[i].file] = <<>>
          THEN DroppedFor(i, "no_commentable_lines_for_file")
          ELSE validated_at[i] = 0
                 => DropReason(i) \notin {"file_not_in_batch", "invalid_line_number",
                                          "no_commentable_lines_for_file"}
    /\ \A i \in Passed :
          (issues[i].file = <<>> \/ issues[i].line = 0) => validated_at[i] = 0
    /\ Len(validated_at) = Len(issues)
    /\ Len(validated) + Len(dropped) = Len(issues)

\* an issue without a file and a line was dropped and the next issue was
\* kept
C12_Witness ==
    /\ Len(issues) = 2
    /\ issues[1].file = <<>>
    /\ DroppedFor(1, "file_not_in_batch")
    /\ validated_at[2] = 1

\* an issue was dropped for its line and another for its file without
\* commentable lines
C12_ReasonsWitness ==
    \E i, j \in Passed :
        /\ DroppedFor(i, "invalid_line_number")
        /\ DroppedFor(j, "no_commentable_lines_for_file")

\* the i-th issue was kept on a line other than its proposed one
Adjusted(i) == validated_at[i] > 0 /\ Returned(i).line # issues[i].line

\* the event carries the reason code, the file, the proposed line and the
\* title prefix of the i-th issue
EventOf(e, i) ==
    /\ e.file = issues[i].file
    /\ e.line = issues[i].line
    /\ e.title = TakeFirst(issues[i].title, 60)
    /\ e.reason_code # ""

\* C13 as stated: every drop and every line adjustment made by validation is
\* recorded as an event carrying the reason code, the file, the proposed
\* line and a title prefix.
C13_EveryDropAndAdjustmentRecorded ==
    \A i \in Passed :
        (validated_at[i] = 0 \/ Adjusted(i))
            => \E k \in 1..Len(drop_reasons) : EventOf(drop_reasons[k], i)

\* the events of the first n issues when events are recorded only for web
\* files under DEBUG_WEB_REVIEW: one for a drop, one with anchor_not_found
\* for a move to the nearest line after a failed search
RECURSIVE GatedEvents(_)
GatedEvents(n) ==
    IF n = 0 THEN <<>>
    ELSE GatedEvents(n - 1) \o
         IF ~(debug_web_review /\ _is_web_file(issues[n].file)) THEN <<>>
         ELSE IF validated_at[n] = 0
         THEN << [file |-> issues[n].file, line |-> issues[n].line,
                  reason_code |-> DropReason(n),
                  title |-> TakeFirst(issues[n].title, 60), adjusted_to |-> NoLine] >>
         ELSE IF Adjusted(n) /\ SearchAttempted(n)
                 /\ Returned(n)._anchor_matched_text = None
         THEN << [file |-> issues[n].file, line |-> issues[n].line,
                  reason_code |-> "anchor_not_found",
                  title |-> TakeFirst(issues[n].title, 60),
                  adjusted_to |-> Returned(n).line] >>
         ELSE <<>>

\* C13 amended: the reason code of every drop is printed; an event carrying
\* the reason code, the file, the proposed line and the first 60 characters
\* of the title is recorded only for a web file when DEBUG_WEB_REVIEW is
\* set, for a drop and for a move to the nearest line after a failed anchor
\* search; a line rewritten by anchor resolution records no event.
C13_EventsOnlyForWebFilesUnderDebug ==
    /\ drop_reasons = GatedEvents(Len(issues))
    /\ Len(dropped) = Cardinality({i \in Passed : validated_at[i] = 0})

\* with DEBUG_WEB_REVIEW set, a drop on a web file with a title of more than
\* 60 characters was recorded and a drop on another file was not
C13_Witness ==
    /\ debug_web_review
    /\ Len(drop_reasons) = 1
    /\ Len(drop_reasons[1].title) = 60
    /\ \E i, j \in Passed :
          /\ validated_at[i] = 0 /\ _is_web_file(issues[i].file)
          /\ Len(issues[i].title) > 60
          /\ validated_at[j] = 0 /\ ~_is_web_file(issues[j].file)

\* a move to the nearest line was recorded, and a line rewritten by anchor
\* resolution was not
C13_AdjustmentWitness ==
    /\ Len(drop_reasons) = 1
    /\ drop_reasons[1].reason_code = "anchor_not_found"
    /\ \E i \in Passed : Adjusted(i) /\ Returned(i)._anchor_matched_text # None

\* C19: validation changes nothing on an issue except its line and the
\* stored matched text: every other field of a kept issue is unchanged, a
\* dropped issue is not modified at all, and the batch file list, the line
\* index and the diff text are not modified.
C19_OnlyLineAndMatchedTextChange ==
    /\ [](\A i \in Passed :
            /\ validated_at[i] > 0
                  => /\ Returned(i) = issues_now[i]
                     /\ [issues_now[i] EXCEPT
                            !.line = issues[i].line,
                            !._anchor_matched_text = issues[i]._anchor_matched_text]
                          = issues[i]
            /\ validated_at[i] = 0 => issues_now[i] = issues[i])
    /\ [][validate_pc = "loop"
            => UNCHANGED <<batch_files, commentable_lines, diff_text>>]_vars

\* one issue was kept with its line rewritten and its matched text stored,
\* one was dropped
C19_Witness ==
    \E i, j \in Passed :
        /\ validated_at[i] > 0
        /\ Returned(i).line # issues[i].line
        /\ Returned(i)._anchor_matched_text # issues[i]._anchor_matched_text
        /\ validated_at[j] = 0
        /\ PassesDropChecks(j)

-----------------------------------------------------------------------------
(* PRReviewer._compute_issue_fingerprint and PRReviewer._dedupe_issues *)

\* str(n)
StrOfInt(n) == IF n < 0 THEN <<"-">> \o IntToStr(-n) ELSE IntToStr(n)

\* s.split(): the maximal runs of non-whitespace characters of s
RECURSIVE SplitWords(_)
SplitWords(s) ==
    LET b == SkipSpace(s, 1)
        e == SkipNonSpace(s, b)
    IN  IF b > Len(s) THEN <<>>
        ELSE <<SubSeq(s, b, e - 1)>> \o SplitWords(DropFirst(s, e - 1))

\* sep.join(words)
RECURSIVE JoinWith(_, _)
JoinWith(sep, words) ==
    IF words = <<>> THEN <<>>
    ELSE IF Len(words) = 1 THEN words[1]
    ELSE words[1] \o sep \o JoinWith(sep, Tail(words))

\* s.replace(" ", "")
RECURSIVE RemoveBlanks(_)
RemoveBlanks(s) ==
    IF s = <<>> THEN <<>>
    ELSE (IF Head(s) = " " THEN <<>> ELSE <<Head(s)>>) \o RemoveBlanks(Tail(s))

\* s.split(";")[0]
BeforeSemicolon(s) ==
    IF \E i \in 1..Len(s) : s[i] = ";"
    THEN SubSeq(s, 1, (CHOOSE i \in 1..Len(s) :
                          s[i] = ";" /\ \A j \in 1..(i - 1) : s[j] # ";") - 1)
    ELSE s

BucketSize == 5
TitleKeyLen == 50
AnchorSigLen == 40

line_bucket_Exact(line) == line

\* `line_bucket = (line // 5) * 5`
line_bucket(line) == (line \div BucketSize) * BucketSize

\* the normalized WCAG SC
wcag_sc_key(wcag_sc) ==
    LET lowered == Lower(Strip(wcag_sc))
        first == IF Contains(lowered, <<";">>) THEN Strip(BeforeSemicolon(lowered))
                 ELSE lowered
    IN  RemoveBlanks(first)

\* the normalized title, cut to its first 50 characters
title_key(title) == TakeFirst(JoinWith(<<" ">>, SplitWords(Lower(Strip(title)))), TitleKeyLen)

\* "".join(text.strip().split()).lower()[:40]
SignatureOf(text) == TakeFirst(Lower(JoinWith(<<>>, SplitWords(Strip(text)))), AnchorSigLen)

\* the anchor signature: of _anchor_matched_text when it is set and not
\* empty, else of anchor_text when that is, else ""
anchor_sig(issue) ==
    IF Truthy(issue._anchor_matched_text) THEN SignatureOf(issue._anchor_matched_text)
    ELSE IF Truthy(issue.anchor_text) THEN SignatureOf(issue.anchor_text)
    ELSE <<>>

\* _compute_issue_fingerprint(issue): the string that is hashed.  The MD5
\* digest returned is taken to be one-to-one on these strings.
_compute_issue_fingerprint(issue) ==
    LET base == Strip(issue.file) \o <<"|">> \o StrOfInt(line_bucket(issue.line))
                \o <<"|">> \o wcag_sc_key(issue.wcag_sc)
                \o <<"|">> \o title_key(issue.title)
        sig == anchor_sig(issue)
    IN  IF sig # <<>> THEN base \o <<"|">> \o sig ELSE base

dedupe_pass_KeepAll(st, issue) ==
    [fingerprint |-> _compute_issue_fingerprint(issue),
     seen_fingerprints |-> st.seen_fingerprints \cup {_compute_issue_fingerprint(issue)},
     out |-> Append(st.out, issue)]

\* one pass of `for issue in issues` of _dedupe_issues: its locals after it
dedupe_pass(st, issue) ==
    LET fingerprint == _compute_issue_fingerprint(issue)
    IN  IF fingerprint \notin st.seen_fingerprints
        THEN [fingerprint |-> fingerprint,
              seen_fingerprints |-> st.seen_fingerprints \cup {fingerprint},
              out |-> Append(st.out, issue)]
        ELSE [st EXCEPT !.fingerprint = fingerprint]

-----------------------------------------------------------------------------
(* The issues given to _dedupe_issues, one pass of its loop at a time *)

MaxFound == 3

Wcag_111 == <<"1", ".", "1", ".", "1">>
Wcag_111_Multi == <<"1", ".", "1", ".", "1", " ", ";", " ", "2", ".", "4", ".", "4">>
Wcag_412 == <<"4", ".", "1", ".", "2">>
Title_Label == <<"M", "i", "s", "s", "i", "n", "g", " ", "l", "a", "b", "e", "l">>
Title_LabelShouted == <<"m", "i", "s", "s", "i", "n", "g", " ", " ", "L", "A", "B", "E", "L">>
Matched_Button == <<" ", " ", "B", "u", "t", "t", "o", "n", "(", " ">>

FoundIssue(file, line, wcag_sc, title, anchor_text, matched) ==
    [file |-> file, line |-> line, wcag_sc |-> wcag_sc, title |-> title,
     anchor_text |-> anchor_text, _anchor_matched_text |-> matched]

\* the issues of a review: one finding at lines 42, 44 and 50 of a.kt and
\* at lines -1 and 0; at line 42 with its title in another case and spacing,
\* with a second code after its code, with another code, with another
\* title, with an anchor and with the text an anchor was matched on; and
\* two long titles that differ after 50 characters
FoundIssues ==
    { FoundIssue(File_A, l, Wcag_111, Title_Label, None, None) : l \in {42, 44, 50, -1, 0} }
    \cup
    { FoundIssue(File_A, 42, Wcag_111, Title_LabelShouted, None, None),
      FoundIssue(File_A, 42, Wcag_111_Multi, Title_Label, None, None),
      FoundIssue(File_A, 42, Wcag_412, Title_Label, None, None),
      FoundIssue(File_A, 42, Wcag_111, Title_Contrast, None, None),
      FoundIssue(File_A, 44, Wcag_111, Title_Label, Anchor_Button, None),
      FoundIssue(File_A, 42, Wcag_111, Title_Label, Anchor_Slider, Matched_Button),
      FoundIssue(File_A, 42, Wcag_111, Title_Long, None, None),
      FoundIssue(File_A, 42, Wcag_111, TakeFirst(Title_Long, 55), None, None) }

\* one pass of `for issue in issues`
DedupeIssue ==
    \E issue \in FoundIssues :
        LET st == dedupe_pass([fingerprint |-> None,
                               seen_fingerprints |-> seen_fingerprints, out |-> out],
                              issue)
        IN  /\ Len(dedupe_issues) < MaxFound
            /\ dedupe_issues' = Append(dedupe_issues, issue)
            /\ fingerprints' = Append(fingerprints, st.fingerprint)
            /\ seen_fingerprints' = st.seen_fingerprints
            /\ out' = st.out
            /\ UNCHANGED <<coreVars, nearVars, prsVars, phVars, extVars>>

DedupeInit == CoreIdle /\ AuxIdle

DedupeNext == DedupeIssue

SpecDedupe == DedupeInit /\ [][DedupeNext]_vars

-----------------------------------------------------------------------------
(* Fingerprints and deduplication *)

\* two issues agree on file, taxonomy code, title and anchor signature
AgreeButLine(a, b) ==
    /\ a.file = b.file
    /\ a.wcag_sc = b.wcag_sc
    /\ a.title = b.title
    /\ anchor_sig(a) = anchor_sig(b)

\* C14: two issues that agree on file, taxonomy code, title and anchor
\* signature have equal fingerprints exactly when their line numbers,
\* integer-divided by 5, are equal.
C14_EqualFingerprintIffSameBucket ==
    \A i, j \in 1..Len(dedupe_issues) :
        AgreeButLine(dedupe_issues[i], dedupe_issues[j]) =>
            ( fingerprints[i] = fingerprints[j]
              <=> dedupe_issues[i].line \div 5 = dedupe_issues[j].line \div 5 )

\* the finding at lines 42, 44 and 50: the first two have one fingerprint,
\* the third another
C14_Witness ==
    \E i, j, k \in 1..Len(dedupe_issues) :
        /\ dedupe_issues[i].line = 42
        /\ dedupe_issues[j].line = 44
        /\ dedupe_issues[k].line = 50
        /\ AgreeButLine(dedupe_issues[i], dedupe_issues[j])
        /\ AgreeButLine(dedupe_issues[j], dedupe_issues[k])
        /\ fingerprints[i] = fingerprints[j]
        /\ fingerprints[j] # fingerprints[k]

\* lines -1 and 0 are in different buckets
C14_NegativeLineWitness ==
    \E i, j \in 1..Len(dedupe_issues) :
        /\ dedupe_issues[i].line = -1
        /\ dedupe_issues[j].line = 0
        /\ AgreeButLine(dedupe_issues[i], dedupe_issues[j])
        /\ fingerprints[i] # fingerprints[j]

\* the i-th issue has the fingerprint of no earlier issue
IsFirstOfFingerprint(i) == \A k \in 1..(i - 1) : fingerprints[k] # fingerprints[i]

\* the first issue of each fingerprint among the first n, in input order
RECURSIVE FirstOfEachFingerprint(_)
FirstOfEachFingerprint(n) ==
    IF n = 0 THEN <<>>
    ELSE IF IsFirstOfFingerprint(n)
         THEN Append(FirstOfEachFingerprint(n - 1), dedupe_issues[n])
         ELSE FirstOfEachFingerprint(n - 1)

\* out is the first issue of each fingerprint in input order: no two of
\* these have one fingerprint, and an issue left out has the fingerprint of
\* an earlier issue that is in out
FirstPerFingerprint ==
    /\ out = FirstOfEachFingerprint(Len(dedupe_issues))
    /\ \A i, j \in 1..Len(dedupe_issues) :
          (i # j /\ IsFirstOfFingerprint(i) /\ IsFirstOfFingerprint(j))
              => fingerprints[i] # fingerprints[j]
    /\ \A i \in 1..Len(dedupe_issues) :
          ~IsFirstOfFingerprint(i) =>
              \E k \in 1..(i - 1) :
                  /\ IsFirstOfFingerprint(k)
                  /\ fingerprints[k] = fingerprints[i]
                  /\ \E a \in 1..Len(out) : out[a] = dedupe_issues[k]

\* two issues at one location that differ in title or taxonomy code
SameLocationOtherFinding(a, b) ==
    /\ a.file = b.file
    /\ a.line = b.line
    /\ (a.title # b.title \/ a.wcag_sc # b.wcag_sc)

\* C15 as stated: out is the first issue of each fingerprint in input order,
\* and two issues at one location that differ in title or taxonomy code
\* never have one fingerprint, so that neither is removed for the other.
C15_DistinctFindingsAtOneLocationKept ==
    /\ FirstPerFingerprint
    /\ \A i, j \in 1..Len(dedupe_issues) :
          SameLocationOtherFinding(dedupe_issues[i], dedupe_issues[j])
              => fingerprints[i] # fingerprints[j]

\* C15: out is the first issue of each fingerprint in input order; an issue
\* is in out exactly when it is the first of its fingerprint, whatever the
\* titles and taxonomy codes of the issues with that fingerprint are.
C15_FirstPerFingerprintKept ==
    /\ FirstPerFingerprint
    /\ \A i \in 1..Len(dedupe_issues) :
          (\E a \in 1..Len(out) : out[a] = dedupe_issues[i])
              <=> \E k \in 1..i : IsFirstOfFingerprint(k)
                                  /\ dedupe_issues[k] = dedupe_issues[i]

\* an issue was removed as a duplicate, and two issues at one location with
\* different titles were both kept
C15_Witness ==
    /\ Len(out) < Len(dedupe_issues)
    /\ \E a, b \in 1..Len(out) :
          /\ out[a].file = out[b].file
          /\ out[a].line = out[b].line
          /\ out[a].title # out[b].title

\* an issue was removed whose title or code differs from that of the
\* earlier issue at its location that has its fingerprint and was kept
C15_CaseOnlyWitness ==
    \E i \in 1..Len(dedupe_issues) :
        /\ \A a \in 1..Len(out) : out[a] # dedupe_issues[i]
        /\ \E k \in 1..(i - 1) :
              /\ SameLocationOtherFinding(dedupe_issues[k], dedupe_issues[i])
              /\ fingerprints[k] = fingerprints[i]
              /\ \E a \in 1..Len(out) : out[a] = dedupe_issues[k]

-----------------------------------------------------------------------------
(* Calls of DiffParser.find_nearest_commentable_line *)

MaxNearest == 2

\* the lists of commentable lines, the target lines and the bounds of the
\* calls
NearestLists == { <<>>, <<1, 2, 5>>, <<2, 4>>, <<1, 2, 5, 35>> }
NearestTargets == {0, 3, 5, 20}
NearestBounds == {0, MaxDistance, 2 * MaxDistance}

\* find_nearest_commentable_line(target_line, commentable_lines, max_distance)
NearestCall ==
    \E target_line \in NearestTargets, lines \in NearestLists,
       max_distance \in NearestBounds :
        /\ Len(nearest_calls) < MaxNearest
        /\ nearest_calls' =
              Append(nearest_calls,
                     [target_line |-> target_line, commentable_lines |-> lines,
                      max_distance |-> max_distance,
                      returned |-> find_nearest_commentable_line(target_line, lines,
                                                                 max_distance)])
        /\ UNCHANGED <<coreVars, dedVars, prsVars, phVars, extVars>>

NearestInit == CoreIdle /\ AuxIdle

NearestNext == NearestCall

SpecNearest == NearestInit /\ [][NearestNext]_vars

\* the distance of a line to the target of a call
DistanceIn(c, line) == Abs(line - c.target_line)

\* what is returned for call c is right
NearestIsRight(c) ==
    LET lines == {c.commentable_lines[i] : i \in 1..Len(c.commentable_lines)}
    IN  /\ c.target_line \in lines => c.returned = c.target_line
        /\ (c.target_line \notin lines /\ c.returned # NoLine) =>
              /\ c.returned \in lines
              /\ DistanceIn(c, c.returned) <= c.max_distance
              /\ \A l \in lines : DistanceIn(c, c.returned) <= DistanceIn(c, l)
        /\ c.returned = NoLine <=>
              \/ lines = {}
              \/ /\ c.target_line \notin lines
                 /\ \A l \in lines : DistanceIn(c, l) > c.max_distance

\* C17: find_nearest_commentable_line returns the target when it is in the
\* list; otherwise a line of the list at the least distance to the target,
\* which is at most max_distance; and no line exactly when the list is empty
\* or the target is not in it and every line is farther than max_distance.
C17_NearestWithinBoundOrNone ==
    \A k \in 1..Len(nearest_calls) : NearestIsRight(nearest_calls[k])

\* lines [1, 2, 5] and target 20: no line with bound 10, line 5 with bound 20
C17_Witness ==
    \E a, b \in 1..Len(nearest_calls) :
        /\ nearest_calls[a].commentable_lines = <<1, 2, 5>>
        /\ nearest_calls[a].target_line = 20
        /\ nearest_calls[a].max_distance = 10
        /\ nearest_calls[a].returned = NoLine
        /\ nearest_calls[b].commentable_lines = <<1, 2, 5>>
        /\ nearest_calls[b].target_line = 20
        /\ nearest_calls[b].max_distance = 20
        /\ nearest_calls[b].returned = 5

\* the target is returned when it is in the list, whatever the bound; and a
\* line at the least distance when two are as near
C17_TargetWitness ==
    \E a, b \in 1..Len(nearest_calls) :
        /\ nearest_calls[a].target_line = 5
        /\ nearest_calls[a].max_distance = 0
        /\ nearest_calls[a].returned = 5
        /\ nearest_calls[b].commentable_lines = <<2, 4>>
        /\ nearest_calls[b].target_line = 3
        /\ nearest_calls[b].returned = 2

-----------------------------------------------------------------------------
(* A diff text with its line endings: _normalize_diff on the text, and the *)
(* three functions that build a per-file structure from it                 *)

\* diff_text.replace("\r\n", "\n")
RECURSIVE ReplaceCRLFIn(_, _, _)
ReplaceCRLFIn(s, lo, hi) ==
    IF lo > hi THEN <<>>
    ELSE IF lo = hi
         THEN (IF s[lo] = "\r" /\ lo < Len(s) /\ s[lo + 1] = "\n" THEN <<>> ELSE <<s[lo]>>)
    ELSE ReplaceCRLFIn(s, lo, (lo + hi) \div 2)
            \o ReplaceCRLFIn(s, ((lo + hi) \div 2) + 1, hi)
ReplaceCRLF(s) == ReplaceCRLFIn(s, 1, Len(s))

\* _normalize_diff(diff_text) on the text itself
_normalize_diff_text(s) == RemoveCR(ReplaceCRLF(s))

\* s.split("\n")
RECURSIVE SplitLFFrom(_, _)
SplitLFFrom(s, from) ==
    IF \E i \in from..Len(s) : s[i] = "\n"
    THEN LET i == CHOOSE k \in from..Len(s) :
                      s[k] = "\n" /\ \A j \in from..(k - 1) : s[j] # "\n"
         IN  <<SubSeq(s, from, i - 1)>> \o SplitLFFrom(s, i + 1)
    ELSE <<SubSeq(s, from, Len(s))>>
SplitLF(s) == SplitLFFrom(s, 1)

\* the line endings a text may arrive with
LineEndings == { <<"\n">>, <<"\r", "\n">>, <<"\r">> }

\* what may follow the path on a header line
HeaderTrailers == { <<>>, <<" ", " ", "j", "u", "n", "k">> }

Path_Old == <<"s", "/", "O", ".", "k", "t">>
Path_New == <<"w", "/", "s", "/", "N", ".", "k", "t">>

\* the lines of the diff of a renamed file with one context line and one
\* added line, with trailer t after the path on its header lines
RenameLines(t) ==
    << DiffGitPrefix \o <<"a", "/">> \o Path_Old \o <<" ", "b", "/">> \o Path_New \o t,
       <<"-", "-", "-", " ", "a", "/">> \o Path_Old,
       FileHeaderPrefix \o Path_New \o t,
       HunkHeaderLine(1, 1, 2, TRUE),
       <<" ", "x">>,
       <<"+", "y">> >>

\* lines[1] endings[1] lines[2] endings[2] ...
RECURSIVE TextOf(_, _)
TextOf(lines, endings) ==
    IF lines = <<>> THEN <<>>
    ELSE Head(lines) \o Head(endings) \o TextOf(Tail(lines), Tail(endings))

\* a diff text arrives
WriteText ==
    \E t \in HeaderTrailers, endings \in [1..Len(RenameLines(<<>>)) -> LineEndings] :
        /\ parse_text = None
        /\ parse_text' = TextOf(RenameLines(t), endings)
        /\ UNCHANGED <<parse_normal, parse_sections, parse_lines, parse_texts>>
        /\ UNCHANGED <<coreVars, dedVars, nearVars, phVars, extVars>>

\* DiffParser._normalize_diff(diff_text)
CallNormalize ==
    /\ parse_text # None
    /\ parse_normal = None
    /\ parse_normal' = _normalize_diff_text(parse_text)
    /\ UNCHANGED <<parse_text, parse_sections, parse_lines, parse_texts>>
    /\ UNCHANGED <<coreVars, dedVars, nearVars, phVars, extVars>>

\* DiffParser.parse_diff(diff_text): the keys of file_diffs
CallParseDiff ==
    /\ parse_text # None
    /\ Len(parse_sections) = 0
    /\ parse_sections' = << parse_diff(SplitLF(_normalize_diff_text(parse_text))) >>
    /\ UNCHANGED <<parse_text, parse_normal, parse_lines, parse_texts>>
    /\ UNCHANGED <<coreVars, dedVars, nearVars, phVars, extVars>>

\* DiffParser.extract_commentable_lines(diff_text)
CallExtractLines ==
    /\ parse_text # None
    /\ Len(parse_lines) = 0
    /\ parse_lines' =
          << extract_commentable_lines(SplitLF(_normalize_diff_text(parse_text))) >>
    /\ UNCHANGED <<parse_text, parse_normal, parse_sections, parse_texts>>
    /\ UNCHANGED <<coreVars, dedVars, nearVars, phVars, extVars>>

\* SemanticAnchorResolver.extract_commentable_line_texts(diff_text,
\* commentable_lines), which reads the text as it arrived
CallExtractTexts ==
    /\ parse_text # None
    /\ Len(parse_lines) = 1
    /\ Len(parse_texts) = 0
    /\ parse_texts' =
          << extract_commentable_line_texts(SplitLF(parse_text), parse_lines[1]) >>
    /\ UNCHANGED <<parse_text, parse_normal, parse_sections, parse_lines>>
    /\ UNCHANGED <<coreVars, dedVars, nearVars, phVars, extVars>>

ParseInit == CoreIdle /\ AuxIdle

ParseNext ==
    WriteText \/ CallNormalize \/ CallParseDiff \/ CallExtractLines \/ CallExtractTexts

SpecParse == ParseInit /\ [][ParseNext]_vars

-----------------------------------------------------------------------------
(* Line endings and the keys of the per-file structures *)

\* a text with each of its line breaks "\r\n", "\r" and "\n" written "\n"
RECURSIVE EveryBreakAsLFIn(_, _, _)
EveryBreakAsLFIn(s, lo, hi) ==
    IF lo > hi THEN <<>>
    ELSE IF lo = hi
         THEN (IF s[lo] # "\r" THEN <<s[lo]>>
               ELSE IF lo < Len(s) /\ s[lo + 1] = "\n" THEN <<>>
               ELSE <<"\n">>)
    ELSE EveryBreakAsLFIn(s, lo, (lo + hi) \div 2)
            \o EveryBreakAsLFIn(s, ((lo + hi) \div 2) + 1, hi)
EveryBreakAsLF(s) == EveryBreakAsLFIn(s, 1, Len(s))

\* the text has a CR that is not followed by an LF
HasBareCR(s) ==
    \E i \in 1..Len(s) : s[i] = "\r" /\ (i = Len(s) \/ s[i + 1] # "\n")

\* C20: the normalized text holds no CR, and its lines are the lines of the
\* text as it arrived with "\r\n", "\r" and "\n" each ending a line, so that
\* two lines separated by a bare CR are two lines.
C20_CRLFAndBareCRBreakLines ==
    parse_normal # None =>
        /\ \A i \in 1..Len(parse_normal) : parse_normal[i] # "\r"
        /\ SplitLF(parse_normal) = SplitLF(EveryBreakAsLF(parse_text))

\* C20, for a text that has no bare CR: the normalized text holds no CR and
\* its lines are those of the text as it arrived.
C20_CRLFBreaksLines ==
    (parse_normal # None /\ ~HasBareCR(parse_text)) =>
        /\ \A i \in 1..Len(parse_normal) : parse_normal[i] # "\r"
        /\ SplitLF(parse_normal) = SplitLF(EveryBreakAsLF(parse_text))

\* a text with a CRLF and no bare CR was normalized
C20_Witness ==
    /\ parse_normal # None
    /\ ~HasBareCR(parse_text)
    /\ \E i \in 1..Len(parse_text) : parse_text[i] = "\r"

\* the keys of the three structures are the destination path alone; the
\* line-text map may have no entry for the file
KeysAreDestinationPath ==
    /\ Len(parse_sections) = 1 => DOMAIN parse_sections[1] = {Path_New}
    /\ Len(parse_lines) = 1 => DOMAIN parse_lines[1] = {Path_New}
    /\ Len(parse_texts) = 1 => DOMAIN parse_texts[1] \subseteq {Path_New}

\* C16: the section map, the commentable-line list and the line-text map
\* built from the diff of a renamed file are keyed by its destination path
\* exactly, whatever follows the path on the header lines.
C16_KeyedByDestinationPathExactly == KeysAreDestinationPath

\* C16, for a text that has no bare CR
C16_KeyedByDestinationPathWithoutBareCR ==
    ~HasBareCR(parse_text) => KeysAreDestinationPath

\* the three structures were built from a text with a trailer after the
\* path on its header lines and no bare CR, and the line-text map has the
\* file / has no entry for it
C16_Witness ==
    /\ Len(parse_sections) = 1
    /\ Len(parse_texts) = 1
    /\ ~HasBareCR(parse_text)
    /\ Contains(parse_text, RenameLines(<<" ", " ", "j", "u", "n", "k">>)[1])
    /\ DOMAIN parse_texts[1] = {}

C16_TextsWitness ==
    /\ Len(parse_sections) = 1
    /\ Len(parse_texts) = 1
    /\ DOMAIN parse_texts[1] = {Path_New}

-----------------------------------------------------------------------------
(* platform_bucketing.filter_locations_for_files over the existing comments *)
(* of a run, phase by phase                                                 *)

MIN_PATH_LENGTH == 2

\* path.replace("\\", "/")
BackslashToSlash(path) == [i \in 1..Len(path) |-> IF path[i] = "\\" THEN "/" ELSE path[i]]

\* normalize_path(path)
normalize_path(path) ==
    IF path = <<>> THEN <<>>
    ELSE IF StartsWith(BackslashToSlash(path), <<"/">>)
         THEN DropFirst(BackslashToSlash(path), 1)
         ELSE BackslashToSlash(path)

\* `('/' in element or '\\' in element) and len(element) > MIN_PATH_LENGTH`
LooksLikePath(element) ==
    /\ \E i \in 1..Len(element) : element[i] \in {"/", "\\"}
    /\ Len(element) > MIN_PATH_LENGTH

\* the elements of a tuple entry that are strings: all but the line number
StringElements(entry) ==
    IF Len(entry) >= 3 THEN <<entry[1], entry[3]>> ELSE <<entry[1]>>

\* extract_path_from_entry(entry) for a tuple entry (file, line, ...): the
\* first string that looks like a path, else the first string that is not
\* empty, else str(entry[0])
extract_path_from_entry(entry) ==
    LET strings == StringElements(entry)
        paths == {i \in 1..Len(strings) : LooksLikePath(strings[i])}
        filled == {i \in 1..Len(strings) : strings[i] # <<>>}
    IN  IF paths # {} THEN strings[CHOOSE i \in paths : \A j \in paths : i <= j]
        ELSE IF filled # {} THEN strings[CHOOSE i \in filled : \A j \in filled : i <= j]
        ELSE entry[1]

\* `normalized_path and normalized_path in normalized_file_set`
InPhase(entry, files) ==
    /\ normalize_path(extract_path_from_entry(entry)) # <<>>
    /\ \E i \in 1..Len(files) :
          normalize_path(files[i]) = normalize_path(extract_path_from_entry(entry))

\* filter_locations_for_files that takes the entries it returns out of the
\* list it is given
filter_locations_for_files_Consuming(locations, files) ==
    [filtered |-> SelectSeq(locations, LAMBDA entry : InPhase(entry, files)),
     locations |-> SelectSeq(locations, LAMBDA entry : ~InPhase(entry, files))]

\* filter_locations_for_files(locations, file_paths): the list returned and
\* the list passed as it is after the call
filter_locations_for_files(locations, files) ==
    [filtered |-> SelectSeq(locations, LAMBDA entry : InPhase(entry, files)),
     locations |-> locations]

-----------------------------------------------------------------------------
(* The phases of a run *)

MaxPhases == 3
MaxAdded == 1

File_Android == <<"a", "n", "d", "r", "o", "i", "d", "/", "M", ".", "k", "t">>
File_Ios == <<"i", "o", "s", "/", "V", ".", "s", "w", "i", "f", "t">>
File_WebWindows == <<"/", "w", "e", "b", "\\", "b", ".", "d", "a", "r", "t">>
Snippet_Path == <<"s", "e", "e", " ", "a", "/", "b">>

\* the existing comments fetched at the start of a run, in the order in
\* which the collection is gone through
FetchedCollections ==
    { << <<File_Android, 10, Snippet_Button>>, <<File_Ios, 20, Snippet_Slider>>,
         <<File_B, 30, Snippet_Image>> >>,
      << <<File_B, 30, Snippet_Image>>, <<File_Android, 10, Snippet_Button>>,
         <<File_B, 31, Snippet_Button>>, <<File_A, 5, Snippet_Path>> >>,
      << >> }

\* the file lists of the phases
PhaseFiles ==
    { <<File_Android>>, <<File_Ios>>, <<File_B>>, <<File_Android, File_WebWindows>>,
      <<File_A>> }

\* the locations a batch may post a comment at
PostedLocations == { <<File_Android, 12>>, <<File_B, 40>> }

\* handle_pull_request fetches the existing comments and copies them
FetchExisting ==
    \E locations \in FetchedCollections :
        /\ fetched_locations = None
        /\ fetched_locations' = locations
        /\ existing_locations' = locations
        /\ run_posted_locations' = {locations[i] : i \in 1..Len(locations)}
        /\ UNCHANGED phase_calls
        /\ UNCHANGED <<coreVars, dedVars, nearVars, prsVars, extVars>>

\* a phase filters the existing comments for its files
FilterPhase ==
    \E files \in PhaseFiles :
        LET r == filter_locations_for_files(existing_locations, files)
        IN  /\ fetched_locations # None
            /\ Len(phase_calls) < MaxPhases
            /\ phase_calls' = Append(phase_calls, [file_paths |-> files,
                                                   filtered |-> r.filtered])
            /\ existing_locations' = r.locations
            /\ UNCHANGED <<fetched_locations, run_posted_locations>>
            /\ UNCHANGED <<coreVars, dedVars, nearVars, prsVars, extVars>>

\* post_batch_comments keeps an issue: `posted_locations.add(location)`
AddPosted ==
    \E location \in PostedLocations :
        /\ fetched_locations # None
        /\ location \notin run_posted_locations
        /\ Cardinality(run_posted_locations) < Len(fetched_locations) + MaxAdded
        /\ run_posted_locations' = run_posted_locations \cup {location}
        /\ UNCHANGED <<fetched_locations, existing_locations, phase_calls>>
        /\ UNCHANGED <<coreVars, dedVars, nearVars, prsVars, extVars>>

PhaseInit == CoreIdle /\ AuxIdle

PhaseNext == FetchExisting \/ FilterPhase \/ AddPosted

SpecPhase == PhaseInit /\ [][PhaseNext]_vars

\* C18: once fetched, the collection of existing comments stays as it was
\* fetched, entry for entry and in its order, through every phase filtering
\* and every posted comment; and what a phase is given is what filtering
\* the collection as fetched for the phase's files gives, whatever phases
\* came before it.
C18_ExistingLocationsReadOnly ==
    fetched_locations # None =>
        /\ existing_locations = fetched_locations
        /\ \A k \in 1..Len(phase_calls) :
              phase_calls[k].filtered =
                  SelectSeq(fetched_locations,
                            LAMBDA entry : InPhase(entry, phase_calls[k].file_paths))
        /\ \A k, l \in 1..Len(phase_calls) :
              phase_calls[k].file_paths = phase_calls[l].file_paths
                  => phase_calls[k].filtered = phase_calls[l].filtered

\* two phases with common files each got the common entry, in either order,
\* after a comment was posted
C18_Witness ==
    /\ Len(fetched_locations) = 3
    /\ Cardinality(run_posted_locations) > Len(fetched_locations)
    /\ \E k, l \in 1..Len(phase_calls) :
          /\ k < l
          /\ phase_calls[k].file_paths = <<File_Android, File_WebWindows>>
          /\ phase_calls[l].file_paths = <<File_B>>
          /\ phase_calls[l].filtered = << <<File_B, 30, Snippet_Image>> >>
          /\ Len(phase_calls[k].filtered) = 2

-----------------------------------------------------------------------------
(* The suffix test of filter_diff_for_files *)

\* C28: for a requested path without an exact match, a diff path is put in
\* suffix_matches only if one of the two paths is the other preceded by one
\* or more whole directory components; so the diff path matched when it is
\* the only suffix match is such a path.
C28_SuffixCandidateAtBoundary ==
    \A i \in Requests :
        file_paths[i] \notin DOMAIN parsed =>
            /\ \A dp \in DOMAIN parsed :
                  IsSuffixMatch(dp, file_paths[i]) =>
                      (IsPathSuffixOf(dp, file_paths[i]) \/ IsPathSuffixOf(file_paths[i], dp))
            /\ (Truthy(matched_paths[i])
                /\ Basename(matched_paths[i]) # Basename(file_paths[i])) =>
                      \/ IsPathSuffixOf(matched_paths[i], file_paths[i])
                      \/ IsPathSuffixOf(file_paths[i], matched_paths[i])

-----------------------------------------------------------------------------
(* DiffParser.extract_changed_line_ranges, and the three functions that     *)
(* read a diff text on texts without a file header                          *)

\* one pass of the loop of extract_changed_line_ranges over `line`
extract_changed_line_ranges_line(st, line) ==
    IF StartsWith(line, FileHeaderPrefix) THEN
        LET path_part == DropFirst(line, 6)
            file == IF path_part # <<>> THEN FirstToken(path_part) ELSE <<>>
        IN  IF file = None
            THEN [st EXCEPT !.raised = TRUE]
            ELSE [st EXCEPT !.current_file = file,
                            !.ranges = SetKey(st.ranges, file, <<>>)]
    ELSE IF HunkMatch(line).matched /\ Truthy(st.current_file) THEN
        LET start == HunkMatch(line).start
            count == IF HunkMatch(line).count = -1 THEN 1 ELSE HunkMatch(line).count
        IN  IF count > 0
            THEN [st EXCEPT !.ranges[st.current_file] =
                                Append(@, <<start, start + count - 1>>)]
            ELSE st
    ELSE st

RECURSIVE RangesFold(_, _)
RangesFold(st, ls) ==
    IF ls = <<>> \/ st.raised THEN st
    ELSE RangesFold(extract_changed_line_ranges_line(st, Head(ls)), Tail(ls))

\* extract_changed_line_ranges(diff_text) for a text split in lines: the
\* locals when it returns, or when the IndexError leaves it (raised)
extract_changed_line_ranges(ls) ==
    RangesFold([ranges |-> <<>>, current_file |-> None, raised |-> FALSE],
               _normalize_diff(ls))

\* the longest text without a file header, in lines
MaxHeaderless == 2

\* lines that are no file header with a destination path: other lines of a
\* diff, and header lines whose destination path is missing or blank
HeaderlessLines ==
    {<<>>, <<"h", "e", "l", "l", "o">>, <<"@", "@", " ", "-", "1", " ", "+", "1", ",", "2", " ", "@", "@">>, <<"+", "x">>, <<"-", "-", "-", " ", "a", "/", "f">>, <<"+", "+", "+", " ", "/", "d", "e", "v", "/", "n", "u", "l", "l">>,
     <<"d", "i", "f", "f", " ", "-", "-", "g", "i", "t", " ", "a", "/", "f">>, <<"d", "i", "f", "f", " ", "-", "-", "g", "i", "t", " ", "a", "/", "f", " ", "b", "/">>, <<"d", "i", "f", "f", " ", "-", "-", "g", "i", "t", " ", "a", "/", "f", " ", "b", "/", " ">>,
     <<"+", "+", "+", " ", "b", "/">>, <<"+", "+", "+", " ", "b", "/", " ">>}

HeaderlessTexts ==
    UNION {[1..n -> HeaderlessLines] : n \in 1..MaxHeaderless}

exceptHdr == <<coreVars, dedVars, nearVars, prsVars, phVars, stVars, resVars, batVars, runVars>>

\* DiffParser.parse_diff(text)
HeaderlessParseDiff ==
    \E ls \in HeaderlessTexts :
        /\ Len(headerless_call) = 0
        /\ headerless_call' =
              << [function |-> "parse_diff", lines |-> ls, raised |-> FALSE,
                  returned |-> parse_diff(ls)] >>
        /\ UNCHANGED exceptHdr

\* DiffParser.extract_commentable_lines(text); nothing is returned when it
\* raises
HeaderlessExtractLines ==
    \E ls \in HeaderlessTexts :
        LET st == ExtractFold(ExtractInit, _normalize_diff(ls))
        IN  /\ Len(headerless_call) = 0
            /\ headerless_call' =
                  << [function |-> "extract_commentable_lines", lines |-> ls,
                      raised |-> st.raised,
                      returned |-> IF st.raised THEN <<>> ELSE st.commentable] >>
            /\ UNCHANGED exceptHdr

\* DiffParser.extract_changed_line_ranges(text)
HeaderlessExtractRanges ==
    \E ls \in HeaderlessTexts :
        LET st == extract_changed_line_ranges(ls)
        IN  /\ Len(headerless_call) = 0
            /\ headerless_call' =
                  << [function |-> "extract_changed_line_ranges", lines |-> ls,
                      raised |-> st.raised,
                      returned |-> IF st.raised THEN <<>> ELSE st.ranges] >>
            /\ UNCHANGED exceptHdr

HeaderlessInit == CoreIdle /\ AuxIdle

HeaderlessNext ==
    \/ HeaderlessParseDiff
    \/ HeaderlessExtractLines
    \/ HeaderlessExtractRanges

SpecHeaderless == HeaderlessInit /\ [][HeaderlessNext]_vars

\* C21: for a diff text without a recognizable file header (no header line,
\* or a header line whose destination path is missing or blank), parse_diff,
\* extract_commentable_lines and extract_changed_line_ranges return an empty
\* result and do not raise.
C21_HeaderlessGivesEmptyWithoutRaising ==
    Len(headerless_call) = 1 =>
        /\ ~headerless_call[1].raised
        /\ DOMAIN headerless_call[1].returned = {}

\* what does hold: parse_diff returns no section for such a text, and the
\* other two do when no line starts with `+++ b/`
C21_EmptyWithoutPlusHeader ==
    (/\ Len(headerless_call) = 1
     /\ \/ headerless_call[1].function = "parse_diff"
        \/ \A i \in 1..Len(headerless_call[1].lines) :
              ~StartsWith(headerless_call[1].lines[i], FileHeaderPrefix)) =>
        /\ ~headerless_call[1].raised
        /\ DOMAIN headerless_call[1].returned = {}

\* a header line with a blank destination path has been indexed
C21_BlankPathWitness ==
    /\ Len(headerless_call) = 1
    /\ headerless_call[1].function = "extract_changed_line_ranges"
    /\ headerless_call[1].lines = << <<"+", "+", "+", " ", "b", "/", " ">> >>

\* a header line with a missing destination path has been indexed
C21_MissingPathWitness ==
    /\ Len(headerless_call) = 1
    /\ headerless_call[1].function = "extract_commentable_lines"
    /\ headerless_call[1].lines[1] = <<"+", "+", "+", " ", "b", "/">>
    /\ ~headerless_call[1].raised

-----------------------------------------------------------------------------
(* The commit status that ends a review run (handle_pull_request)           *)

\* the most issues of a run
MaxFoundInRun == 3

\* the severities an issue may carry: the four that _count_severities
\* counts, and the capitalised names the review prompt asks the model for
Severities == {"critical", "major", "minor", "info", "Critical", "High"}

CountedSeverities == {"critical", "major", "minor", "info"}

\* CommentPoster._count_severities(issues): a count for each of its four keys
_count_severities(found) ==
    [k \in CountedSeverities |->
        Cardinality({i \in 1..Len(found) : found[i].severity = k})]

\* severity_counts.get(key, 0)
CountOf(severity_counts, key) ==
    IF key \in DOMAIN severity_counts THEN severity_counts[key] ELSE 0

\* the `status` that handle_pull_request posts when the run ends
determine_status(found) ==
    IF found # <<>>
    THEN LET severity_counts == _count_severities(found)
             critical_count == CountOf(severity_counts, "Critical")
             high_count == CountOf(severity_counts, "High")
         IN  IF critical_count > 0 THEN "failure"
             ELSE IF high_count > 0 THEN "success"
             ELSE "success"
    ELSE "success"

AllIssuesOfRun ==
    UNION {[1..n -> [severity : Severities]] : n \in 0..MaxFoundInRun}

exceptSt == <<coreVars, dedVars, nearVars, prsVars, phVars, hdrVars, resVars, batVars, runVars>>

\* the end of handle_pull_request: the status is posted
PostFinalStatus ==
    \E found \in AllIssuesOfRun :
        /\ Len(final_status) = 0
        /\ final_status' =
              << [all_issues |-> found, status |-> determine_status(found)] >>
        /\ UNCHANGED exceptSt

StatusInit == CoreIdle /\ AuxIdle

StatusNext == PostFinalStatus

SpecStatus == StatusInit /\ [][StatusNext]_vars

HasCritical(found) ==
    \E i \in 1..Len(found) : found[i].severity = "critical"

\* C22: the final commit status of a run is 'success' when no issue was
\* found, 'failure' when a found issue has severity critical, and 'neutral'
\* when issues were found and none is critical.
C22_StatusBySeverity ==
    Len(final_status) = 1 =>
        final_status[1].status =
            IF final_status[1].all_issues = <<>> THEN "success"
            ELSE IF HasCritical(final_status[1].all_issues) THEN "failure"
            ELSE "neutral"

\* what does hold: every run ends with 'success'
C22_AlwaysSuccess ==
    Len(final_status) = 1 => final_status[1].status = "success"

\* a run that found a critical issue has ended
C22_CriticalWitness ==
    /\ Len(final_status) = 1
    /\ HasCritical(final_status[1].all_issues)

-----------------------------------------------------------------------------
(* Claims about the candidates of resolve_anchor_line *)

\* the lines of the file of the i-th issue that a list of candidates matches
LinesMatching(i, candidates) ==
    IF issues[i].file \in DOMAIN line_texts
    THEN {line_texts[issues[i].file][k].line :
            k \in {k \in 1..Len(line_texts[issues[i].file]) :
                     /\ line_texts[issues[i].file][k].text # <<>>
                     /\ \E c \in 1..Len(candidates) :
                           CandidateMatches(candidates[c],
                                            line_texts[issues[i].file][k].text)}}
    ELSE {}

\* the lines matched by the explicit anchor, by the call-site token of the
\* code snippet, and by the candidates inferred from title and extension
ExplicitAnchorLines(i) ==
    IF Truthy(issues[i].anchor_text)
    THEN LinesMatching(i, <<issues[i].anchor_text>>) ELSE {}

CallSiteLines(i) ==
    IF extract_call_site_token(issues[i].current_code) # None
    THEN LinesHolding(i, extract_call_site_token(issues[i].current_code)) ELSE {}

InferredLines(i) ==
    LinesMatching(i, extract_anchor_candidates([issues[i] EXCEPT !.anchor_text = None],
                                               PathSuffix(issues[i].file)))

\* validate_issues_in_batch called resolve_anchor_line for the i-th issue
Searched(i) ==
    /\ PassesDropChecks(i)
    /\ ~IsCommentable(issues[i].file, issues[i].line)
    /\ SearchAttempted(i)

\* the i-th issue was returned on a line found by anchor resolution
Resolved(i) == validated_at[i] > 0 /\ Returned(i)._anchor_matched_text # None

\* C23: the strategies are tried in order and the first with a non-empty set
\* of matching lines decides: when the explicit anchor matches no
\* commentable line, resolution goes on to the call-site token and to the
\* inferred keyword and framework patterns, and the issue stays unresolved
\* only if these match no line either.
C23_LaterStrategiesTriedAfterExplicitAnchor ==
    \A i \in Passed :
        (Searched(i) /\ Truthy(issues[i].anchor_text) /\ ExplicitAnchorLines(i) = {}) =>
            /\ Resolved(i) <=> (CallSiteLines(i) \cup InferredLines(i)) # {}
            /\ Resolved(i) =>
                  Returned(i).line \in
                      IF CallSiteLines(i) # {} THEN CallSiteLines(i) ELSE InferredLines(i)

\* C23 amended: for an issue without a code snippet, an explicit anchor is
\* the only thing searched for: the issue is resolved to a line the anchor
\* matches, and is unresolved when the anchor matches no line, whatever the
\* inferred patterns match; the inferred candidates are searched only when
\* the issue has no explicit anchor.  (Stated of the issue of the last pass:
\* a pass leaves what earlier passes returned as it is.)
C23_ExplicitAnchorAloneDecides ==
    \A i \in LastPassed :
        (Searched(i) /\ issues[i].current_code = None) =>
            \A decides \in {IF Truthy(issues[i].anchor_text)
                             THEN ExplicitAnchorLines(i) ELSE InferredLines(i)} :
                /\ Resolved(i) <=> decides # {}
                /\ Resolved(i) => Returned(i).line \in decides

\* an issue whose explicit anchor matches no line, while inferred patterns
\* match one, went through resolution and was not resolved
C23_Witness ==
    \E i \in Passed :
        /\ Searched(i)
        /\ issues[i].current_code = None
        /\ Truthy(issues[i].anchor_text)
        /\ ExplicitAnchorLines(i) = {}
        /\ InferredLines(i) # {}
        /\ ~Resolved(i)

\* an issue without explicit anchor was resolved by an inferred pattern
C23_InferredWitness ==
    \E i \in Passed :
        /\ Searched(i)
        /\ ~Truthy(issues[i].anchor_text)
        /\ Resolved(i)
        /\ Returned(i).line \in InferredLines(i)

\* the lines in `matches` for the i-th issue: those of its explicit anchor
\* when it has one, else those of the inferred candidates
MatchedLines(i) ==
    IF Truthy(issues[i].anchor_text) THEN ExplicitAnchorLines(i) ELSE InferredLines(i)

C24_CloserWitness ==
    \E i \in Passed :
        /\ Searched(i)
        /\ Resolved(i)
        /\ \E m \in MatchedLines(i) : m < Returned(i).line

-----------------------------------------------------------------------------
(* resolve_anchor_line called with an explicit anchor on the line texts of  *)
(* one file                                                                 *)

\* right_line_to_text: the items of the dict, in rising line order
AnchorLineTexts ==
    << [line |-> 5, text |-> <<"T", "e", "x", "t", "(", "a", ".", "b", ")">>],
       [line |-> 6, text |-> <<" ", " ", ".", "s", "t", "y", "l", "e", "(", "x", ")">>],
       [line |-> 7, text |-> <<"v", "[", "0", "]", " ", "*", " ", "2">>],
       [line |-> 8, text |-> <<"c", "o", "s", "t", " ", "$", "5", " ", "x", "^", "y">>],
       [line |-> 9, text |-> <<"S", "l", "i", "d", "e", "r", "(">>],
       [line |-> 10, text |-> <<"a", "x", "b">> ] >>

\* explicit anchors: plain ones, and ones with '.', '(', '[', '*', '^', '$'
ExplicitAnchors ==
    {<<"S", "l", "i", "d", "e", "r", "(">>, <<"s", "l", "i", "d", "e", "r", "(">>, <<"(", "x", ")">>, <<"a", "b", "s", "e", "n", "t">>, <<".", "s", "t", "y", "l", "e", "(">>, <<"a", ".", "b">>, <<"A", ".", "B">>, <<"t", ".", "s">>,
     <<"v", "[", "0", "]">>, <<"0", "]", " ", "*">>, <<"*", " ", "2">>, <<"$", "5">>, <<"x", "^", "y">>}

\* the proposed lines (0: none) and the fallback lines (NoLine: none)
ProposedLines == {0, 5, 6, 7, 9, 10}
FallbackLines == {NoLine, 9}

exceptRes == <<coreVars, dedVars, nearVars, prsVars, phVars, hdrVars, stVars, batVars, runVars>>

\* SemanticAnchorResolver.resolve_anchor_line(issue, right_line_to_text,
\* fallback_line, '.kt')
ResolveExplicitAnchor ==
    \E anchor \in ExplicitAnchors, line \in ProposedLines, fallback_line \in FallbackLines :
        LET issue == NewIssue(File_A, line, Title_Contrast, anchor, None)
        IN  /\ Len(resolve_call) = 0
            /\ resolve_call' =
                  << [issue |-> issue, fallback_line |-> fallback_line,
                      returned |-> resolve_anchor_line(issue, AnchorLineTexts, fallback_line,
                                                       PathSuffix(File_A))] >>
            /\ UNCHANGED exceptRes

ResolveInit == CoreIdle /\ AuxIdle

ResolveNext == ResolveExplicitAnchor

SpecResolve == ResolveInit /\ [][ResolveNext]_vars

\* the lines whose text holds the string s, as it is or in another case
LinesWithLiteral(s) ==
    {AnchorLineTexts[k].line :
        k \in {k \in 1..Len(AnchorLineTexts) :
                 \/ Contains(AnchorLineTexts[k].text, s)
                 \/ Contains(Lower(AnchorLineTexts[k].text), Lower(s))}}

\* C25: if the explicit anchor occurs literally, in its own or another case,
\* in the text of a commentable line, resolution yields a line whose text
\* holds it, whatever characters the anchor is made of.
C25_LiteralAnchorResolvesToItsLine ==
    Len(resolve_call) = 1 =>
        (LinesWithLiteral(resolve_call[1].issue.anchor_text) # {} =>
            resolve_call[1].returned.line
                \in LinesWithLiteral(resolve_call[1].issue.anchor_text))

\* what does hold: an anchor that the code does not read as a regular
\* expression resolves to a line that holds it
C25_PlainAnchorResolvesToItsLine ==
    (Len(resolve_call) = 1 /\ ~is_regex_pattern(resolve_call[1].issue.anchor_text)) =>
        (LinesWithLiteral(resolve_call[1].issue.anchor_text) # {} =>
            resolve_call[1].returned.line
                \in LinesWithLiteral(resolve_call[1].issue.anchor_text))

\* an anchor with '.' and '(' that occurs in line 6 was searched for
C25_MetacharacterWitness ==
    /\ Len(resolve_call) = 1
    /\ resolve_call[1].issue.anchor_text = <<".", "s", "t", "y", "l", "e", "(">>
    /\ 6 \in LinesWithLiteral(resolve_call[1].issue.anchor_text)

\* a plain anchor was found in another case
C25_PlainWitness ==
    /\ Len(resolve_call) = 1
    /\ resolve_call[1].issue.anchor_text = <<"s", "l", "i", "d", "e", "r", "(">>
    /\ resolve_call[1].returned.line = 9

-----------------------------------------------------------------------------
(* One batch of PRReviewer.review_pr_diff: the batch diff is taken with     *)
(* filter_diff_for_files and the issues of the reply are validated against  *)
(* it                                                                       *)

\* filter_diff_for_files(diff_text, file_paths), in lines: the sections of
\* the matched diff paths, in the order of file_paths
RECURSIVE FilteredSections(_, _)
FilteredSections(file_diffs, files) ==
    IF files = <<>> THEN <<>>
    ELSE LET matched_diff_path == MatchedDiffPath(Head(files), file_diffs)
         IN  (IF Truthy(matched_diff_path) THEN file_diffs[matched_diff_path] ELSE <<>>)
                \o FilteredSections(file_diffs, Tail(files))

filter_diff_for_files(diff, files) ==
    FilteredSections(parse_diff(_normalize_diff(diff)), files)

\* the diffs of a pull request: sections of different files
PullRequestDiffs ==
    {s \in UNION {[1..n -> DiffPaths] : n \in 1..MaxDiffFiles} :
        \A i, j \in 1..Len(s) : s[i] = s[j] => i = j}

FileBatches == UNION {[1..n -> RequestPaths] : n \in 1..MaxRequests}

\* the lines an issue of a reply may name: the added line and the next one
ReplyLines == {1, 2}

exceptBat == <<coreVars, dedVars, nearVars, prsVars, phVars, hdrVars, stVars, resVars, runVars>>

\* one pass of `for batch_idx, file_batch in enumerate(batches)` with a
\* reply of one issue on a file of the batch; skipped when the batch has no
\* diff content
ReviewBatch ==
    \E paths \in PullRequestDiffs, file_batch \in FileBatches, line \in ReplyLines :
        \E k \in 1..Len(file_batch) :
            LET pr_diff == Flatten([i \in 1..Len(paths) |-> SectionOf(paths[i])])
                batch_diff == filter_diff_for_files(pr_diff, file_batch)
                lines_of == extract_commentable_lines(batch_diff)
                issue == NewIssue(file_batch[k], line, Title_Contrast, None, None)
                r == validate_issue(issue, file_batch, lines_of, batch_diff,
                                    extract_commentable_line_texts(batch_diff, lines_of))
            IN  /\ Len(batch_review) = 0
                /\ batch_review' =
                      << [diff_paths |-> paths, file_batch |-> file_batch,
                          skipped |-> batch_diff = <<>>,
                          commentable_lines |-> lines_of,
                          issue |-> issue,
                          kept |-> batch_diff # <<>> /\ r.kept,
                          reason_code |-> IF batch_diff # <<>> THEN r.reason_code
                                          ELSE None] >>
                /\ UNCHANGED exceptBat

BatchInit == CoreIdle /\ AuxIdle

BatchNext == ReviewBatch

SpecBatch == BatchInit /\ [][BatchNext]_vars

\* the diff path that filter_diff_for_files matched for the file of the issue
MatchedForIssue ==
    MatchedDiffPath(batch_review[1].issue.file,
                    [p \in {batch_review[1].diff_paths[i] :
                              i \in 1..Len(batch_review[1].diff_paths)} |-> SectionOf(p)])

\* the line of the issue is a commentable line of the matched section
OnMatchedSection ==
    /\ Truthy(MatchedForIssue)
    /\ MatchedForIssue \in DOMAIN batch_review[1].commentable_lines
    /\ InList(batch_review[1].issue.line, batch_review[1].commentable_lines[MatchedForIssue])

\* C26: when filter_diff_for_files resolved a requested path by suffix or
\* basename rather than exactly, an issue naming the requested path on a
\* commentable line of the matched section is kept by the validation of
\* the batch.
C26_IssueOnSuffixMatchedFileKept ==
    (/\ Len(batch_review) = 1
     /\ OnMatchedSection
     /\ MatchedForIssue # batch_review[1].issue.file) =>
        batch_review[1].kept

\* what does hold: such an issue is kept when the path was matched exactly,
\* and dropped for no_commentable_lines_for_file when it was not
C26_KeptOnlyOnExactMatch ==
    (Len(batch_review) = 1 /\ OnMatchedSection) =>
        IF MatchedForIssue = batch_review[1].issue.file
        THEN batch_review[1].kept
        ELSE /\ ~batch_review[1].kept
             /\ batch_review[1].reason_code = <<"no_commentable_lines_for_file">>

\* a batch whose file was matched by suffix got a reply on the added line
C26_SuffixWitness ==
    /\ Len(batch_review) = 1
    /\ OnMatchedSection
    /\ batch_review[1].issue.file = Path_M
    /\ MatchedForIssue = Path_aM

\* a batch whose file was matched exactly got a reply on the added line
C26_ExactWitness ==
    /\ Len(batch_review) = 1
    /\ OnMatchedSection
    /\ MatchedForIssue = batch_review[1].issue.file
    /\ batch_review[1].kept

-----------------------------------------------------------------------------
(* PRReviewer.review_pr_diff with progressive posting: every                *)
(* batch_size_for_posting batches the issues gathered are deduplicated and  *)
(* handed to on_batch_complete                                              *)

RECURSIVE DedupeFold(_, _)
DedupeFold(st, list) ==
    IF list = <<>> THEN st ELSE DedupeFold(dedupe_pass(st, Head(list)), Tail(list))

\* _dedupe_issues(issues): seen_fingerprints starts empty in every call
_dedupe_issues(list) ==
    DedupeFold([fingerprint |-> None, seen_fingerprints |-> {}, out |-> <<>>], list).out

\* `batch_size_for_posting = 5  # Post every 5 batches`
batch_size_for_posting == 5

\* the batches of a run, and the issues validated in one batch
MaxBatches == 6
MaxBatchIssues == 1

\* the issues a batch may yield: one finding reported at lines 42 and 44
\* (equal fingerprints) and at line 50
RunIssues ==
    {FoundIssue(File_A, l, Wcag_111, Title_Label, None, None) : l \in {42, 44, 50}}

ValidatedLists == UNION {[1..n -> RunIssues] : n \in 0..MaxBatchIssues}

exceptRun == <<coreVars, dedVars, nearVars, prsVars, phVars, hdrVars, stVars, resVars,
               batVars>>

\* a pass of the loop over the batches for a batch without diff content
SkipBatch ==
    /\ run_pc = "loop"
    /\ batch_idx < MaxBatches
    /\ batch_idx' = batch_idx + 1
    /\ UNCHANGED <<all_issues, handed, run_pc>>
    /\ UNCHANGED exceptRun

\* a pass of the loop: the validated issues of the batch are added, and
\* every batch_size_for_posting batches what was gathered is deduplicated,
\* handed to the callback and cleared
ReviewPass ==
    \E validated_issues \in ValidatedLists :
        LET gathered == all_issues \o validated_issues
            posts == /\ Len(gathered) > 0
                     /\ (batch_idx + 1) % batch_size_for_posting = 0
        IN  /\ run_pc = "loop"
            /\ batch_idx < MaxBatches
            /\ batch_idx' = batch_idx + 1
            /\ handed' = IF posts /\ _dedupe_issues(gathered) # <<>>
                         THEN Append(handed, _dedupe_issues(gathered)) ELSE handed
            /\ all_issues' = IF posts /\ _dedupe_issues(gathered) # <<>>
                             THEN <<>> ELSE gathered
            /\ UNCHANGED run_pc
            /\ UNCHANGED exceptRun

\* after the loop: what remains is deduplicated and handed over
FinishRun ==
    /\ run_pc = "loop"
    /\ run_pc' = "done"
    /\ handed' = IF Len(all_issues) > 0 /\ _dedupe_issues(all_issues) # <<>>
                 THEN Append(handed, _dedupe_issues(all_issues)) ELSE handed
    /\ UNCHANGED <<batch_idx, all_issues>>
    /\ UNCHANGED exceptRun

RunInit == CoreIdle /\ AuxIdle

RunNext == SkipBatch \/ ReviewPass \/ FinishRun

SpecRun == RunInit /\ [][RunNext]_vars

\* the issues handed to the callback: the call and the place in its list
HandedIssues == {<<c, k>> \in (1..Len(handed)) \X (1..MaxBatches * MaxBatchIssues) :
                    k <= Len(handed[c])}

C27_NoEqualFingerprintsInOneCall ==
    \A a, b \in HandedIssues :
        (a # b /\ a[1] = b[1]) =>
            _compute_issue_fingerprint(handed[a[1]][a[2]])
                # _compute_issue_fingerprint(handed[b[1]][b[2]])

\* the callback was called twice in one run
C27_TwoCallsWitness ==
    /\ Len(handed) = 2
    /\ run_pc = "done"

\* a duplicate was dropped from the list of one call
C27_DroppedWitness ==
    /\ Len(handed) = 1
    /\ Len(handed[1]) = 1
    /\ batch_idx = batch_size_for_posting
    /\ run_pc = "loop"

-----------------------------------------------------------------------------
(* Claims about the locations post_batch_comments adds to posted_locations *)

\* the k-th call was made for an issue that a record of the issue accepted
\* in the j-th call would cover: same file, within the radius, equal
\* normalized title
CoveredByAccepted(j, k) ==
    /\ j < k
    /\ ~near_calls[j].result.should_skip
    /\ near_calls[k].issue.file = near_calls[j].issue.file
    /\ Abs(near_calls[k].issue.line - near_calls[j].issue.line) <= RangeThreshold
    /\ NormalizeTitle(near_calls[k].issue.title) = NormalizeTitle(near_calls[j].issue.title)

\* C29: an issue accepted for posting is from then on treated like an
\* existing record: a later issue of the run on the same file, within the
\* radius, with an equal normalized title is suppressed.
C29_AcceptedIssueSuppressesLaterSameTitle ==
    \A j, k \in 1..Len(near_calls) :
        CoveredByAccepted(j, k) => near_calls[k].result.should_skip

\* what does hold: the location of an accepted issue is in posted_locations
\* without a snippet, and a later issue with its title nearby is suppressed
\* only by a record that carries a snippet
C29_AcceptedLocationHasNoSnippet ==
    /\ \A j \in 1..Len(near_calls) :
          ~near_calls[j].result.should_skip =>
              <<near_calls[j].issue.file, near_calls[j].issue.line>> \in posted_locations
    /\ \A j, k \in 1..Len(near_calls) :
          (CoveredByAccepted(j, k) /\ near_calls[k].result.should_skip) =>
              \E entry \in near_calls[k].posted :
                  /\ EntrySnippet(entry) # <<>>
                  /\ NearRecord(entry, near_calls[k].issue)

\* an issue was accepted and a later issue with its title, three lines
\* further, was looked up
C29_Witness ==
    \E j, k \in 1..Len(near_calls) :
        /\ CoveredByAccepted(j, k)
        /\ NormalizeTitle(near_calls[k].issue.title) # <<>>
        /\ near_calls[k].issue.line = near_calls[j].issue.line + 3


\* ---------------------------------------------------------------------
\* C30: the fuzzy title rule
\* ---------------------------------------------------------------------

\* floor(0.8 x n)
FourFifths(n) == CHOOSE k \in 0..n : 10 * k <= 8 * n /\ 8 * n < 10 * (k + 1)

\* both normalized titles have 30 characters at least and are equal on the
\* first floor(0.8 x length of the shorter) characters
AgreeOnPrefix(entry, issue) ==
    LET a == NormalizeTitle(issue.title)
        b == NormalizeTitle(EntrySnippet(entry))
    IN  /\ Len(a) >= 30
        /\ Len(b) >= 30
        /\ \A k \in 1..FourFifths(Min(Len(a), Len(b))) : a[k] = b[k]

\* the call stopped at the record on a title match
StoppedOnTitle(call, entry) ==
    /\ call.result.should_skip
    /\ MatchedIs(call, entry)
    /\ call.result.skip_reason \in {"exact title match", "fuzzy title match"}

\* the records of the call that are near its issue
NearRecords(call) == {entry \in call.posted : NearRecord(entry, call.issue)}

\* C30: when the normalized titles of a near record and of the issue are
\* not equal, the record is judged the same issue by title if and only if
\* both titles have at least 30 characters and are equal on the first
\* floor(0.8 x length of the shorter title) characters: such a record
\* suppresses the issue, a call stops on a title match at such a record
\* only, and titles under 30 characters never match unless equal.  Stated
\* of the call made last.
C30_FuzzyTitleRule ==
    \A call \in LastCall : \A entry \in NearRecords(call) :
        ~EqualTitle(entry, call.issue) =>
            \A agree \in {AgreeOnPrefix(entry, call.issue)} :
                /\ agree => call.result.should_skip
                /\ StoppedOnTitle(call, entry) =>
                       /\ agree
                       /\ call.result.skip_reason = "fuzzy title match"
                /\ ( /\ NearRecords(call) = {entry}
                     /\ ~agree
                     /\ AnchorMatch(IssueAnchor(call.issue), EntrySnippet(entry)) = "" )
                   => ~call.result.should_skip

\* a call stopped on a fuzzy title match at a record whose title differs
C30_FuzzyWitness ==
    \E call \in Calls : \E entry \in NearRecords(call) :
        /\ ~EqualTitle(entry, call.issue)
        /\ AgreeOnPrefix(entry, call.issue)
        /\ StoppedOnTitle(call, entry)
        /\ call.result.skip_reason = "fuzzy title match"

\* two unequal titles under 30 characters that are equal on four fifths of
\* the shorter one did not match
C30_ShortWitness ==
    \E call \in Calls : \E entry \in NearRecords(call) :
        LET a == NormalizeTitle(call.issue.title)
            b == NormalizeTitle(EntrySnippet(entry))
        IN  /\ a # b
            /\ Len(a) < 30
            /\ Len(b) < 30
            /\ Len(b) > 0
            /\ \A k \in 1..FourFifths(Min(Len(a), Len(b))) : a[k] = b[k]
            /\ NearRecords(call) = {entry}
            /\ ~call.result.should_skip

\* two titles of 30 characters or more that differ within the first four
\* fifths did not match
C30_LongWitness ==
    \E call \in Calls : \E entry \in NearRecords(call) :
        /\ Len(NormalizeTitle(call.issue.title)) >= 30
        /\ Len(NormalizeTitle(EntrySnippet(entry))) >= 30
        /\ ~AgreeOnPrefix(entry, call.issue)
        /\ NearRecords(call) = {entry}
        /\ ~call.result.should_skip

=============================================================================
